---- MODULE Spec2Model ----
(***************************************************************************)
(* A model of exp3_no_youtube: the DNS middleman (dns_middleman.py) that   *)
(* appends one line per exchange to the ordered Event Log, and the blocker *)
(* (youtube_ip_blocker.py) that tails that log and converges PF rules.     *)
(*                                                                         *)
(* The specifications share the variables:                                 *)
(*   TailSpec      the Event Log file, its writer and consume_new_events   *)
(*   ClassifySpec  consume_new_events over whole lines of several kinds    *)
(*   CursorSpec    consume_new_events over lines holding a carriage return *)
(*   RoundTripSpec record_event's rendering followed by parse_ordered_line *)
(*   ShutdownSpec  each process on its own under fair scheduling           *)
(*   SyncSpec      the blocker's main() loop against the packet filter     *)
(*   PipelineSpec  SyncSpec with writes that reach the file in two pieces  *)
(*   ProxySpec     the middleman's threads, record_event and start()       *)
(*   ProxyFairSpec ProxySpec under the fairness of its scheduling          *)
(*   DecodeSpec    decode_dns_name, one loop iteration at a time           *)
(*   CodecSpec     the three codec functions on the bytes of whole messages *)
(*   FramingSpec   handle_tcp_client and recv_exact, one recv at a time    *)
(*                                                                         *)
(* Text is modelled as a sequence of tokens.  A log line                   *)
(*   "[" domain "] @ [" time "] using [" ip ", " ip "]" "\n"               *)
(* is the token sequence                                                   *)
(*   "[" d1 .. dn "]" "@" "[" t "]" "u" "[" ip "," ip "]" "\n"             *)
(* where "@" stands for " @ ", "u" for " using " and "," for ", ".         *)
(***************************************************************************)
EXTENDS Integers, Sequences, FiniteSets, TLC

\* ------------------------------------------------------------- bounds
\* Lines the middleman writes in one run of the model.
MaxRecords == 2

\* Queries the middleman receives in one run of the model.
MaxQueries == 2

\* Packets the anchor's block rule drops between two loads of the rules.
MaxPackets == 1

\* pfctl invocations (rule loads and counter reads) that fail in one run.
MaxFailures == 1

\* Bytes of the longest buffer decode_dns_name is run on exhaustively.
MaxBufLen == 4

\* Labels of the longest question name extract_query_domain is run on.
MaxLabels == 2

\* Resource records of the longest response extract_answer_ips is run on.
MaxAnswers == 2

\* ------------------------------------------------------------- inputs
\* IP texts as socket.inet_ntoa / inet_ntop print them, in sorted order a < b.
IpTokens == {"a", "b"}

\* The IP lists extract_answer_ips can return: sorted, without duplicates.
IpLists == {<< >>, <<"a", "b">>}

\* Question names decode_dns_name can return.  "y" is youtube.com, "w" the
\* prefix "www.", "o" any other name; a label may hold any byte, "[" included.
RecDomains == {<<"y">>, <<"o">>, <<"o", "[", "y">>}

\* The texts event_timestamp() returns while the model runs.
Times == {<<"t1">>}

Records == [domain : RecDomains, time : Times, ips : IpLists]

\* The lines the middleman writes while the blocker's main() is studied: answers
\* for the target domain whose addresses rotate.
SyncRecords == [domain : {<<"y">>}, time : Times, ips : {<<"a">>, <<"b">>}]

\* The lines the middleman writes while the tailer's classification is studied:
\* the target domain, its www. form, another name, and a name with a label
\* holding "]" (its line fails the grammar), with zero, one or two addresses.
MatchRecords == [domain : {<<"y">>, <<"w", "y">>, <<"o">>, <<"o", "]", "y">>},
                 time : Times,
                 ips : {<< >>, <<"a">>, <<"a", "b">>}]

\* The lines the middleman writes while the tailer's cursor is studied: the
\* target domain, and a name with a label holding a carriage return.
CursorRecords == [domain : {<<"y">>, <<"o", "\r", "y">>}, time : Times,
                  ips : {<<"a">>}]

\* The records record_event renders while the line grammar is studied: names
\* without and with a bracket, a name whose first label starts with a space, and
\* address lists as extract_answer_ips returns them, one holding an IPv6
\* address that inet_ntop prints in mixed notation.
RoundTripRecords ==
  [domain : {<<"y">>, <<" ", "y">>, <<"o", "]", "y">>, <<"o", "[", "y">>},
   time : Times,
   ips : {<< >>, <<"a">>, <<"a", "b">>, <<"m">>}]

\* The size of a DNS header: make_servfail and the extractors need that many bytes.
HeaderLen == 12

\* The threads of the middleman besides the main thread: the UDP listener, the
\* TCP accept loop, and the handler of one accepted TCP connection.
Threads == {"udp", "tcp", "c1"}

\* The threads that carry out exchanges.
Workers == {"udp", "c1"}

\* The queries a client sends: the length in bytes, the transaction ID (bytes
\* 0-1) and the question name decode_dns_name finds at offset 12 (none in a
\* query that stops short of it).
Queries == {[len |-> 5, id |-> "i1", name |-> << >>],
            [len |-> 29, id |-> "i2", name |-> <<"y">>]}

\* What forwarding to the upstream resolver yields: a response carrying
\* addresses, or a failure (socket error or timeout).
Upstream == {[ok |-> FALSE, ips |-> << >>], [ok |-> TRUE, ips |-> <<"a">>]}

\* The names record_event is called with.
ProxyDomains == {<<"y">>, <<"unknown">>}

\* The texts pfctl prints on stderr when it fails.
Reasons == {"r1", "r2"}

\* Python's None, for a text result
None == "None"

\* Python's None, for a match or parsed-line result
NoMatch == [ok |-> FALSE]

VARIABLES
  \* ---- the Event Log file (ordered_domains_<stamp>.txt)
  log_exists,     \* the file has been created
  log,            \* its bytes, as a reader in another process sees them
  wpending,       \* bytes of the writer's current write(2) not yet visible
  written,        \* history: the records record_event rendered into the file
  \* ---- the blocker (BlockerState, and main()'s position)
  state,          \* the BlockerState fields consume_new_events updates
  pc,             \* where the blocker is
  accepted,       \* history: the events consume_new_events accepted
  \* ---- the blocker's main() and the packet filter
  blocked,        \* state.blocked_ips: which set object it is, and its content
  pf_ready,       \* main()'s pf_ready
  last_pf_message,\* main()'s last_pf_message
  stop_event,     \* main()'s stop_event
  pf_enabled,     \* the packet filter: "Status: Enabled"
  anchor,         \* the packet filter: the anchor's rules and table
  snapshot,       \* the intermediate status file as last written
  final_payload,  \* the final summary files as written
  cycle,          \* history: the convergence of the current loop iteration
  prev_cycle,     \* history: the convergence of the iteration before
  pf_calls,       \* history: the pfctl invocations made so far, by kind
  \* ---- the middleman (DNSMiddleman) and its threads
  mm_stop_event,  \* self.stop_event
  lock,           \* self.lock: the thread holding it, or "free"
  ordered_fp,     \* self.ordered_fp: "None", "open" or "closed"
  domain_times,   \* self.domain_times
  domain_ips,     \* self.domain_ips
  query_count,    \* self.query_count
  split_file,     \* the domain_splits file as flush_outputs wrote it
  main_pc,        \* where the main thread is in start()
  th,             \* where each other thread is
  exch,           \* the exchange each handling thread is carrying out
  nq,             \* history: queries received so far
  done_exch,      \* history: the exchanges that ended, and how
  \* ---- the Message Codec (decode_dns_name and the functions built on it)
  call,           \* the call studied: arguments, locals of the loop, result
  \* ---- one TCP client connection, byte by byte
  conn            \* the client's bytes, and the handler's place in the framing

fileVars == <<log_exists, log, wpending, written>>

syncVars == <<blocked, pf_ready, last_pf_message, stop_event, pf_enabled,
              anchor, snapshot, final_payload, cycle, prev_cycle, pf_calls>>

proxyVars == <<mm_stop_event, lock, ordered_fp, domain_times, domain_ips,
               query_count, split_file, main_pc, th, exch, nq, done_exch,
               conn>>

blockerVars == <<state, pc, accepted, syncVars>>

vars == <<log_exists, log, wpending, written, state, pc, accepted, blocked,
          pf_ready, last_pf_message, stop_event, pf_enabled, anchor, snapshot,
          final_payload, cycle, prev_cycle, pf_calls, mm_stop_event, lock,
          ordered_fp,
          domain_times, domain_ips, query_count, split_file, main_pc, th, exch,
          nq, done_exch, call, conn>>

\* ------------------------------------------------------ text helpers
RECURSIVE JoinIps(_)
\* ", ".join(ips)
JoinIps(ips) ==
  IF ips = << >> THEN << >>
  ELSE IF Len(ips) = 1 THEN <<Head(ips)>>
  ELSE <<Head(ips), ",">> \o JoinIps(Tail(ips))

\* line = f"[{domain}] @ [{ts}] using [{ips_text}]", written as line + "\n"
RenderLine(r) ==
  <<"[">> \o r.domain \o <<"]", "@", "[">> \o r.time \o <<"]", "u", "[">>
    \o JoinIps(r.ips) \o <<"]", "\n">>

\* str.lower() on one token
LowerChar(c) ==
  IF c = "Y" THEN "y" ELSE IF c = "O" THEN "o" ELSE IF c = "W" THEN "w" ELSE c

Lower(s) == [i \in 1..Len(s) |-> LowerChar(s[i])]

RECURSIVE StripChars(_, _)
\* str.strip(chars): drop leading and trailing tokens that are in chars
StripChars(s, chars) ==
  IF s = << >> THEN s
  ELSE IF Head(s) \in chars THEN StripChars(Tail(s), chars)
  ELSE IF s[Len(s)] \in chars THEN StripChars(SubSeq(s, 1, Len(s) - 1), chars)
  ELSE s

Whitespace == {" ", "\n", "\r"}

\* The first position >= i of s holding "]", or 0: where [^\]]* must stop.
RECURSIVE FirstClose(_, _)
FirstClose(s, i) ==
  IF i > Len(s) THEN 0
  ELSE IF s[i] = "]" THEN i
  ELSE FirstClose(s, i + 1)

\* ORDERED_LINE_RE.match(s): the three groups, or None.
OrderedLineMatch(s) ==
  IF Len(s) < 1 \/ s[1] # "[" THEN NoMatch
  ELSE LET j1 == FirstClose(s, 2) IN
    IF j1 = 0 \/ Len(s) < j1 + 2 \/ s[j1 + 1] # "@" \/ s[j1 + 2] # "[" THEN NoMatch
    ELSE LET j2 == FirstClose(s, j1 + 3) IN
      IF j2 = 0 \/ Len(s) < j2 + 2 \/ s[j2 + 1] # "u" \/ s[j2 + 2] # "[" THEN NoMatch
      ELSE LET j3 == FirstClose(s, j2 + 3) IN
        IF j3 = 0 \/ j3 # Len(s) THEN NoMatch
        ELSE [ok     |-> TRUE,
              domain |-> SubSeq(s, 2, j1 - 1),
              time   |-> SubSeq(s, j1 + 3, j2 - 1),
              ips    |-> SubSeq(s, j2 + 3, j3 - 1)]

\* normalize_ip: str(ipaddress.ip_address(token)), the canonical text of an
\* address, and None for anything else.  "m" is an IPv6 address in the mixed
\* notation inet_ntop prints ("::1.2.3.4"), "h" the same address as ipaddress
\* prints it ("::102:304").
normalize_ip(tok) ==
  IF tok \in IpTokens \cup {"h"} THEN tok
  ELSE IF tok = "m" THEN "h"
  ELSE None

RECURSIVE SplitComma(_, _)
\* ips_raw.split(","): the parts, each a token sequence; cur is the part so far
SplitComma(s, cur) ==
  IF s = << >> THEN <<cur>>
  ELSE IF Head(s) = "," THEN <<cur>> \o SplitComma(Tail(s), << >>)
  ELSE SplitComma(Tail(s), Append(cur, Head(s)))

RECURSIVE NormalizeParts(_, _)
\* the loop of parse_ordered_line: valid addresses in order, first occurrence only
NormalizeParts(parts, seen) ==
  IF parts = << >> THEN << >>
  ELSE LET p  == StripChars(Head(parts), Whitespace)
           ip == IF Len(p) = 1 THEN normalize_ip(p[1]) ELSE None
       IN IF ip # None /\ ip \notin seen
          THEN <<ip>> \o NormalizeParts(Tail(parts), seen \cup {ip})
          ELSE NormalizeParts(Tail(parts), seen)

parse_ordered_line(line) ==
  LET m == OrderedLineMatch(StripChars(line, Whitespace)) IN
  IF ~m.ok THEN NoMatch
  ELSE LET ips_raw == StripChars(m.ips, Whitespace) IN
    [ok     |-> TRUE,
     domain |-> StripChars(Lower(StripChars(m.domain, Whitespace)), {"."}),
     time   |-> StripChars(m.time, Whitespace),
     ips    |-> IF ips_raw = << >> THEN << >>
                ELSE NormalizeParts(SplitComma(ips_raw, << >>), {})]

\* the tuple (domain, event_time, ips) parse_ordered_line returns
Event(p) == [domain |-> p.domain, time |-> p.time, ips |-> p.ips]

\* args.target_domain, lower-cased and stripped
target_domain == <<"y">>

\* build_target_domains: the domain and its www. form
\* mutation of build_target_domains: the domain alone
build_target_domains_NoAlias(t) == {StripChars(Lower(t), {"."})}

build_target_domains(t) ==
  LET base == StripChars(Lower(t), {"."}) IN
  {base} \cup (IF Len(base) >= 1 /\ base[1] = "w" THEN {} ELSE {<<"w">> \o base})

is_target_domain(domain, targets) == StripChars(Lower(domain), {"."}) \in targets

SeqToSet(s) == {s[i] : i \in 1..Len(s)}

\* ------------------------------------------------------ the Event Log
\* BlockerState(...) as main() constructs it
InitState ==
  [consumed_bytes |-> 0,
   total_dns_events |-> 0,
   youtube_dns_query_seen |-> FALSE,
   youtube_dns_returned |-> FALSE,
   youtube_events |-> << >>,
   youtube_ips |-> {},
   observed_domains |-> {},
   unblocked_domains |-> {},
   cumulative_blocked_packets |-> 0]

\* a status text: a fixed wording and the variable part that follows it
Msg(prefix, text) == [prefix |-> prefix, text |-> text]

NoAttempt == [result |-> "none", reason |-> "", before |-> {}]

NoFile == [written |-> FALSE]

\* the packet filter's anchor with nothing loaded: no rule, no table, and so no
\* packet counter
ClearedAnchor == [rules |-> FALSE, table |-> {}, packets |-> 0]

\* no pfctl invocation made yet; `lost` adds up the counter values that
\* successful loads of the rules have reset
NoCalls == [enable |-> 0, load |-> 0, loaded |-> 0, failed |-> 0, lost |-> 0]

BlockerInit ==
  /\ state = InitState
  /\ accepted = << >>
  /\ blocked = [ref |-> "own", obj |-> {}]
  /\ pf_ready = FALSE
  /\ last_pf_message = Msg("", "")
  /\ stop_event = FALSE
  /\ pf_enabled \in BOOLEAN
  /\ anchor = ClearedAnchor
  /\ snapshot = NoFile
  /\ final_payload = NoFile
  /\ cycle = NoAttempt
  /\ prev_cycle = NoAttempt
  /\ pf_calls = NoCalls

FileInit ==
  /\ log_exists = FALSE
  /\ log = << >>
  /\ wpending = << >>
  /\ written = << >>

NoExch == [active |-> FALSE]

\* no call of the Message Codec is studied
NoCall == [fn |-> "none"]

\* a connection just accepted: nothing sent, nothing read; the handler is about
\* to read a length prefix at offset `start` of the client's bytes
NoConn ==
  [msgs |-> << >>, arrived |-> 0, taken |-> 0, open |-> TRUE,
   stage |-> "prefix", size |-> 2, buf |-> << >>, start |-> 0,
   forwarded |-> << >>, last |-> [result |-> "none"]]

\* DNSMiddleman.__init__
ProxyInit ==
  /\ conn = NoConn
  /\ mm_stop_event = FALSE
  /\ lock = "free"
  /\ ordered_fp = "None"
  /\ domain_times = [d \in ProxyDomains |-> << >>]
  /\ domain_ips = [d \in ProxyDomains |-> {}]
  /\ query_count = 0
  /\ split_file = NoFile
  /\ main_pc = "init"
  /\ th = [t \in Threads |-> "unstarted"]
  /\ exch = [t \in Workers |-> NoExch]
  /\ nq = 0
  /\ done_exch = {}

\* consume_new_events called again and again on a fresh BlockerState
TailInit ==
  /\ FileInit
  /\ BlockerInit
  /\ ProxyInit
  /\ call = NoCall
  /\ pf_enabled = FALSE
  /\ pc = "idle"

\* DNSMiddleman.start: ordered_path.open("w") creates the file
OpenOrderedLog ==
  /\ ~log_exists
  /\ log_exists' = TRUE
  /\ UNCHANGED <<proxyVars, call>>
  /\ UNCHANGED <<log, wpending, written, state, pc, accepted, syncVars>>

\* record_event's ordered_fp.write(line + "\n"); flush(), seen from the reading
\* process: the first k bytes of the write are in the file, the rest not yet.
AppendLine(r, k) ==
  /\ log_exists
  /\ wpending = << >>
  /\ Len(written) < MaxRecords
  /\ LET line == RenderLine(r) IN
       /\ k \in 1..Len(line)
       /\ log' = log \o SubSeq(line, 1, k)
       /\ wpending' = SubSeq(line, k + 1, Len(line))
  /\ written' = Append(written, r)
  /\ UNCHANGED <<proxyVars, call>>
  /\ UNCHANGED <<log_exists, state, pc, accepted, syncVars>>

\* the rest of that write becomes visible
AppendRest ==
  /\ wpending # << >>
  /\ log' = log \o wpending
  /\ wpending' = << >>
  /\ UNCHANGED <<proxyVars, call>>
  /\ UNCHANGED <<log_exists, written, state, pc, accepted, syncVars>>

\* ------------------------------------------------- consume_new_events
\* f.readline() at byte offset pos of a file opened in text mode with the default
\* newline=None: up to and including the next "\n", "\r" or "\r\n", or to EOF.
\* The bytes of the line are kept as they are in the file (Python hands the
\* terminator over as "\n"; line.strip() removes either).
RECURSIVE LineEnd(_, _)
LineEnd(bytes, i) ==
  IF i > Len(bytes) THEN Len(bytes)
  ELSE IF bytes[i] = "\n" THEN i
  ELSE IF bytes[i] = "\r"
       THEN (IF i < Len(bytes) /\ bytes[i + 1] = "\n" THEN i + 1 ELSE i)
  ELSE LineEnd(bytes, i + 1)

readline(bytes, pos) == SubSeq(bytes, pos + 1, LineEnd(bytes, pos + 1))

\* The flag a text-mode position holds besides the byte offset: f.tell() returns
\* a cookie, the offset plus the state of the newline decoder.  CPython keeps
\* this flag (need_eof) at bit 160; here it sits above every offset reached.
NeedEof == 2 ^ 10

\* mutation of AcceptEvent: youtube_ips is set to the addresses of the event
AcceptEvent_ReplaceIps(s, ev) ==
  [s EXCEPT !.total_dns_events = @ + 1,
            !.youtube_events = Append(@, ev),
            !.youtube_ips = SeqToSet(ev.ips)]

\* the body of the loop for one parsed line (lines 278-296)
AcceptEvent(s, ev) ==
  LET isTarget == is_target_domain(ev.domain, build_target_domains(target_domain)) IN
  [s EXCEPT
     !.total_dns_events = @ + 1,
     !.observed_domains = @ \cup {ev.domain},
     !.youtube_dns_query_seen = IF isTarget THEN TRUE ELSE @,
     !.youtube_dns_returned = IF isTarget /\ ev.ips # << >> THEN TRUE ELSE @,
     !.youtube_events = IF isTarget THEN Append(@, ev) ELSE @,
     !.youtube_ips = IF isTarget THEN @ \cup SeqToSet(ev.ips) ELSE @,
     !.unblocked_domains = IF isTarget THEN @ ELSE @ \cup {ev.domain}]

\* mutation of CursorAfter: the cursor stops before the line's last byte
CursorAfter_Short(pos, line) == pos + Len(line) - 1

\* the byte offset after readline returned a non-empty line
CursorAfter(pos, line) == pos + Len(line)

\* f.tell() after readline returned line, read at offset pos: the offset after
\* the line, flagged when the decoder holds a "\r" that ended the file
tell(bytes, pos, line) ==
  CursorAfter(pos, line)
    + (IF line[Len(line)] = "\r" /\ pos + Len(line) = Len(bytes) THEN NeedEof ELSE 0)

\* mutation of ConsumeOpen: the file is opened without the test for its
\* existence, and open() raises FileNotFoundError when it is missing
ConsumeOpen_NoExistsTest(from, ret) ==
  /\ pc = from
  /\ pc' = IF log_exists THEN "reading" ELSE "finally"
  /\ UNCHANGED <<proxyVars, call>>
  /\ UNCHANGED <<fileVars, state, accepted, syncVars>>

\* consume_new_events entered from pc = from: the file is missing (return) or
\* it is opened and positioned at consumed_bytes
ConsumeOpen(from, ret) ==
  /\ pc = from
  /\ pc' = IF log_exists THEN "reading" ELSE ret
  /\ UNCHANGED <<proxyVars, call>>
  /\ UNCHANGED <<fileVars, state, accepted, syncVars>>

\* one turn of the while loop: readline, break on "", else advance and parse
ReadLine(ret) ==
  /\ pc = "reading"
  /\ LET pos  == state.consumed_bytes % NeedEof
         line == readline(log, pos)
     IN
     IF line = << >>
     THEN /\ pc' = ret
          /\ UNCHANGED <<state, accepted>>
     ELSE LET parsed == parse_ordered_line(line)
              moved  == [state EXCEPT !.consumed_bytes = tell(log, pos, line)]
          IN /\ pc' = "reading"
             /\ IF ~parsed.ok
                THEN state' = moved /\ UNCHANGED accepted
                ELSE state' = AcceptEvent(moved, Event(parsed))
                     /\ accepted' = Append(accepted, Event(parsed))
  /\ UNCHANGED <<proxyVars, call>>
  /\ UNCHANGED <<fileVars, syncVars>>

TailNext ==
  \/ OpenOrderedLog
  \/ \E r \in Records : \E k \in 1..(Len(RenderLine(r))) : AppendLine(r, k)
  \/ AppendRest
  \/ ConsumeOpen("idle", "idle")
  \/ ReadLine("idle")

TailSpec == TailInit /\ [][TailNext]_vars

\* consume_new_events called again and again while the middleman appends whole
\* lines for target and other domains
ClassifyNext ==
  \/ OpenOrderedLog
  \/ \E r \in MatchRecords : AppendLine(r, Len(RenderLine(r)))
  \/ ConsumeOpen("idle", "idle")
  \/ ReadLine("idle")

ClassifySpec == TailInit /\ [][ClassifyNext]_vars

\* parse_ordered_line applied to the next line record_event rendered
ParseRendered ==
  /\ Len(accepted) < Len(written)
  /\ LET parsed == parse_ordered_line(RenderLine(written[Len(accepted) + 1])) IN
       accepted' = Append(accepted, IF parsed.ok THEN Event(parsed) ELSE NoMatch)
  /\ UNCHANGED <<proxyVars, call>>
  /\ UNCHANGED <<fileVars, state, pc, syncVars>>

\* record_event renders records and parse_ordered_line parses each line
RoundTripNext ==
  \/ OpenOrderedLog
  \/ \E r \in RoundTripRecords : AppendLine(r, Len(RenderLine(r)))
  \/ ParseRendered

RoundTripSpec == TailInit /\ [][RoundTripNext]_vars

\* consume_new_events called again and again while the middleman's writes reach
\* the file in one piece or in two, for names with a label holding "\r"
CursorNext ==
  \/ OpenOrderedLog
  \/ \E r \in CursorRecords : \E k \in 1..(Len(RenderLine(r))) : AppendLine(r, k)
  \/ AppendRest
  \/ ConsumeOpen("idle", "idle")
  \/ ReadLine("idle")

CursorSpec == TailInit /\ [][CursorNext]_vars

\* ------------------------------------------------------ blocker main()
\* the value of state.blocked_ips: the object it refers to
BlockedIps == IF blocked.ref = "alias" THEN state.youtube_ips ELSE blocked.obj

\* mutation of set_copy: state.blocked_ips = state.youtube_ips, the same object
set_alias(ips) == [ref |-> "alias", obj |-> ips]

\* set(state.youtube_ips): a new set object holding the same elements
set_copy(ips) == [ref |-> "own", obj |-> ips]

\* the middleman appends one whole line (its write is seen at once here)
SyncAppend(r) ==
  /\ log_exists
  /\ wpending = << >>
  /\ Len(written) < MaxRecords
  /\ log' = log \o RenderLine(r)
  /\ written' = Append(written, r)
  /\ UNCHANGED <<proxyVars, call>>
  /\ UNCHANGED <<log_exists, wpending, state, pc, accepted, syncVars>>

\* stop_handler: SIGINT or SIGTERM arrives
StopSignal ==
  /\ ~stop_event
  /\ pc \notin {"done", "crashed"}
  /\ stop_event' = TRUE
  /\ UNCHANGED <<proxyVars, call>>
  /\ UNCHANGED <<fileVars, state, pc, accepted, blocked, pf_ready, last_pf_message,
                 pf_enabled, anchor, snapshot, final_payload, cycle, prev_cycle,
                 pf_calls>>

\* ensure_pf_enabled(): what it returns and what it leaves enabled
ensure_pf_enabled(enabled) ==
  IF enabled
  THEN {[ok |-> TRUE, msg |-> Msg("pf already enabled", ""), enabled |-> TRUE]}
  ELSE {[ok |-> TRUE, msg |-> Msg("pf enabled", ""), enabled |-> TRUE]}
       \cup {[ok |-> FALSE, msg |-> Msg("", r), enabled |-> FALSE] : r \in Reasons}

\* pf_ready, last_pf_message = ensure_pf_enabled(), and the "PF unavailable" text
Startup ==
  /\ pc = "start"
  /\ \E res \in ensure_pf_enabled(pf_enabled) :
       /\ pf_ready' = res.ok
       /\ pf_enabled' = res.enabled
       /\ last_pf_message' =
            IF res.ok THEN res.msg ELSE Msg("PF unavailable: ", res.msg.text)
  /\ pf_calls' = [pf_calls EXCEPT !.enable = @ + 1]
  /\ pc' = "loop"
  /\ UNCHANGED <<proxyVars, call>>
  /\ UNCHANGED <<fileVars, state, accepted, blocked, stop_event, anchor, snapshot,
                 final_payload, cycle, prev_cycle>>

\* while not stop_event.is_set(): enter the body, or leave for the finally block
LoopTest ==
  /\ pc = "loop"
  /\ IF stop_event
     THEN pc' = "finally" /\ UNCHANGED <<cycle, prev_cycle>>
     ELSE pc' = "consume" /\ prev_cycle' = cycle /\ cycle' = NoAttempt
  /\ UNCHANGED <<proxyVars, call>>
  /\ UNCHANGED <<fileVars, state, accepted, blocked, pf_ready, last_pf_message,
                 stop_event, pf_enabled, anchor, snapshot, final_payload,
                 pf_calls>>

\* read_blocked_packet_count(anchor, label): the count pfctl reports for the
\* labelled rule, and 0 when pfctl fails (lines 144-146)
read_blocked_packet_count(cur) ==
  {[ok |-> TRUE, n |-> cur.packets], [ok |-> FALSE, n |-> 0]}

\* the number of failed invocations among those with the outcomes oks
Failures(oks) == Cardinality({i \in 1..Len(oks) : ~oks[i]})

\* the packet filter fails at most MaxFailures invocations in one run
PfAllows(oks) == pf_calls.failed + Failures(oks) <= MaxFailures

\* read_blocked_packet_count(...) if pf_ready else 0
CurrentPackets(ready, cur) ==
  IF ready THEN read_blocked_packet_count(cur) ELSE {[ok |-> TRUE, n |-> 0]}

\* a packet to a blocked address leaves the host: the rule drops it and counts it
PacketBlocked ==
  /\ pc \notin {"done", "crashed"}
  /\ anchor.rules
  /\ anchor.packets < MaxPackets
  /\ anchor' = [anchor EXCEPT !.packets = @ + 1]
  /\ UNCHANGED <<proxyVars, call>>
  /\ UNCHANGED <<fileVars, state, pc, accepted, blocked, pf_ready,
                 last_pf_message, stop_event, pf_enabled, snapshot,
                 final_payload, cycle, prev_cycle, pf_calls>>

\* mutation of ConvergeNeeded: no new attempt while the last one is reported failed
ConvergeNeeded_NoRetry ==
  /\ pf_ready
  /\ state.youtube_ips # BlockedIps
  /\ last_pf_message.prefix # "Failed to apply PF rules: "

\* mutation of ConvergeNeeded: the test leaves pf_ready out
ConvergeNeeded_IgnoreReady == state.youtube_ips # BlockedIps

\* mutation of ConvergeNeeded: the rules are loaded in every iteration
ConvergeNeeded_Always == pf_ready

\* if pf_ready and state.youtube_ips != state.blocked_ips
ConvergeNeeded == pf_ready /\ state.youtube_ips # BlockedIps

\* apply_anchor_rules(anchor, ips, label): what it returns and the anchor after it
apply_anchor_rules(cur, ips) ==
  IF ips = {}
  THEN {[ok |-> TRUE, msg |-> Msg("cleared rules (no YouTube IPs yet)", ""),
         anchor |-> ClearedAnchor]}
  ELSE {[ok |-> TRUE, msg |-> Msg("loaded blocked IPs", ""),
         anchor |-> [rules |-> TRUE, table |-> ips, packets |-> 0]]}
       \cup {[ok |-> FALSE, msg |-> Msg("", r), anchor |-> cur] : r \in Reasons}

\* mutation of BlockedAfter: the assignment is made whatever ok is
BlockedAfter_Unconditional(ok, cur, ips) == set_copy(ips)

\* mutation of BlockedAfter: the assignment is made when the load failed
BlockedAfter_Inverted(ok, cur, ips) == IF ok THEN cur ELSE set_copy(ips)

\* state.blocked_ips after the attempt (lines 364-365)
BlockedAfter(ok, cur, ips) == IF ok THEN set_copy(ips) ELSE cur

\* last_pf_message after the attempt (lines 363-367)
MessageAfter(ok, msg) ==
  IF ok THEN msg ELSE Msg("Failed to apply PF rules: ", msg.text)

\* the convergence block of the loop body (lines 358-367)
Converge ==
  /\ pc = "check"
  /\ IF ConvergeNeeded
     THEN \E rd \in read_blocked_packet_count(anchor) :
          \E res \in apply_anchor_rules(anchor, state.youtube_ips) :
            /\ PfAllows(<<rd.ok, res.ok>>)
            /\ state' = [state EXCEPT !.cumulative_blocked_packets = @ + rd.n]
            /\ anchor' = res.anchor
            /\ last_pf_message' = MessageAfter(res.ok, res.msg)
            /\ blocked' = BlockedAfter(res.ok, blocked, state.youtube_ips)
            /\ cycle' = [result |-> IF res.ok THEN "ok" ELSE "fail",
                         reason |-> res.msg.text,
                         before |-> BlockedIps]
            /\ pf_calls' = [pf_calls EXCEPT
                              !.load = @ + 1,
                              !.loaded = @ + (IF res.ok THEN 1 ELSE 0),
                              !.lost = @ + (IF res.ok THEN anchor.packets ELSE 0),
                              !.failed = @ + Failures(<<rd.ok, res.ok>>)]
     ELSE UNCHANGED <<state, anchor, last_pf_message, blocked, cycle, pf_calls>>
  /\ pc' = "snapshot"
  /\ UNCHANGED <<proxyVars, call>>
  /\ UNCHANGED <<fileVars, accepted, pf_ready, stop_event, pf_enabled,
                 snapshot, final_payload, prev_cycle>>

\* mutation of build_snapshot: the file is left as it is in an iteration in
\* which no convergence ran
build_snapshot_WhenConverged(blocked_packets) ==
  IF cycle.result = "none" THEN snapshot
  ELSE [written |-> TRUE,
        total_dns_events |-> state.total_dns_events,
        youtube_ips |-> state.youtube_ips,
        blocked_ips |-> BlockedIps,
        pf_ready |-> pf_ready,
        pf_status |-> last_pf_message,
        blocked_packets_so_far |-> blocked_packets]

\* build_snapshot(state, pf_ready=..., last_pf_message=...): the fields modelled
build_snapshot(blocked_packets) ==
  [written |-> TRUE,
   total_dns_events |-> state.total_dns_events,
   youtube_ips |-> state.youtube_ips,
   blocked_ips |-> BlockedIps,
   pf_ready |-> pf_ready,
   pf_status |-> last_pf_message,
   blocked_packets_so_far |-> blocked_packets]

\* current_packets is read, the snapshot is built and
\* write_json(state.intermediate_log, snapshot) writes it (lines 369-378)
WriteSnapshot ==
  /\ pc = "snapshot"
  /\ \E rd \in CurrentPackets(pf_ready, anchor) :
       /\ PfAllows(<<rd.ok>>)
       /\ snapshot' = build_snapshot(state.cumulative_blocked_packets + rd.n)
       /\ pf_calls' = [pf_calls EXCEPT !.failed = @ + Failures(<<rd.ok>>)]
  /\ pc' = "sleep"
  /\ UNCHANGED <<proxyVars, call>>
  /\ UNCHANGED <<fileVars, state, accepted, blocked, pf_ready, last_pf_message,
                 stop_event, pf_enabled, anchor, final_payload, cycle, prev_cycle>>

\* time.sleep(max(args.poll_seconds, 0.1))
Sleep ==
  /\ pc = "sleep"
  /\ pc' = "loop"
  /\ UNCHANGED <<proxyVars, call>>
  /\ UNCHANGED <<fileVars, state, accepted, syncVars>>

\* a call of the loop body raises (opening the log, running pfctl, writing the
\* intermediate file): control passes to the finally block; while the log is
\* missing consume_new_events returns before it opens anything
LoopBodyRaises ==
  /\ pc \in {"consume", "check", "snapshot"}
  /\ pc = "consume" => log_exists
  /\ pc' = "finally"
  /\ UNCHANGED <<proxyVars, call>>
  /\ UNCHANGED <<fileVars, state, accepted, syncVars>>

\* the finally block up to write_final_txt (lines 381-398)
FinalWrite ==
  /\ pc = "finally"
  /\ \E rd \in CurrentPackets(pf_ready, anchor) :
       /\ PfAllows(<<rd.ok>>)
       /\ final_payload' = build_snapshot(state.cumulative_blocked_packets + rd.n)
       /\ snapshot' = build_snapshot(state.cumulative_blocked_packets + rd.n)
       /\ pf_calls' = [pf_calls EXCEPT !.failed = @ + Failures(<<rd.ok>>)]
  /\ pc' = "clear"
  /\ UNCHANGED <<proxyVars, call>>
  /\ UNCHANGED <<fileVars, state, accepted, blocked, pf_ready, last_pf_message,
                 stop_event, pf_enabled, anchor, cycle, prev_cycle>>

\* one of those calls raises: the exception leaves main() through the finally
\* block and the statements after it are not run
FinalWriteRaises ==
  /\ pc = "finally"
  /\ pc' = "crashed"
  /\ UNCHANGED <<proxyVars, call>>
  /\ UNCHANGED <<fileVars, state, accepted, syncVars>>

\* clear_anchor_rules(anchor): pfctl -F rules, pfctl -F Tables
clear_anchor_rules(cur) == ClearedAnchor

\* if pf_ready: clear_anchor_rules(state.anchor), then main() returns
FinalClear ==
  /\ pc = "clear"
  /\ anchor' = IF pf_ready THEN clear_anchor_rules(anchor) ELSE anchor
  /\ pc' = "done"
  /\ UNCHANGED <<proxyVars, call>>
  /\ UNCHANGED <<fileVars, state, accepted, blocked, pf_ready, last_pf_message,
                 stop_event, pf_enabled, snapshot, final_payload, cycle, prev_cycle,
                 pf_calls>>

SyncInit ==
  /\ FileInit
  /\ BlockerInit
  /\ ProxyInit
  /\ call = NoCall
  /\ pc = "start"

SyncNext ==
  \/ OpenOrderedLog
  \/ \E r \in SyncRecords : SyncAppend(r)
  \/ StopSignal
  \/ PacketBlocked
  \/ Startup
  \/ LoopTest
  \/ ConsumeOpen("consume", "check")
  \/ ReadLine("check")
  \/ Converge
  \/ WriteSnapshot
  \/ Sleep
  \/ LoopBodyRaises
  \/ FinalWrite
  \/ FinalWriteRaises
  \/ FinalClear

SyncSpec == SyncInit /\ [][SyncNext]_vars

\* ------------------------------------------- the two processes together
\* The blocker's main() tailing the Event Log while the middleman's writes
\* reach the file as the reading process sees them, in one piece or in two.
PipelineNext ==
  \/ SyncNext
  \/ \E r \in SyncRecords : \E k \in 1..(Len(RenderLine(r))) : AppendLine(r, k)
  \/ AppendRest

PipelineSpec == SyncInit /\ [][PipelineNext]_vars


\* ------------------------------------------------- the middleman's threads
\* no response: make_servfail returned None
NoResponse == [present |-> FALSE]

\* extract_query_domain(query): the question name, empty when there is none
extract_query_domain(q) == IF q.len < HeaderLen THEN << >> ELSE q.name

\* domain = extract_query_domain(query) or "unknown"
DomainOrUnknown(d) == IF d = << >> THEN <<"unknown">> ELSE d

\* header + query[12:]: the query's ID (query[:2]), the flags 0x8182, the
\* query's QDCOUNT, zero answer, authority and additional counts, and what
\* follows the query's header (its question); it is as long as the query
Servfail(q) ==
  [present |-> TRUE, kind |-> "servfail", id |-> q.id, question |-> q.name,
   ancount |-> 0, ips |-> << >>, len |-> q.len]

\* the response the upstream resolver sent for query q, carrying addresses ips:
\* the query's bytes and one record of 16 bytes for each address
Answer(q, ips) ==
  [present |-> TRUE, kind |-> "answer", id |-> q.id, question |-> q.name,
   ancount |-> Len(ips), ips |-> ips, len |-> q.len + 16 * Len(ips)]

\* mutation of Wire: the TCP handler sends the response without its length
Wire_NoPrefix(proto, response) == [prefix |-> << >>, body |-> response]

\* what is handed to the client's socket: sendto(response, client_addr), or
\* sendall(struct.pack("!H", len(response)) + response)
Wire(proto, response) ==
  [prefix |-> IF proto = "udp" THEN << >>
              ELSE <<response.len \div 256, response.len % 256>>,
   body |-> response]

\* mutation of make_servfail: a reply is built from a query of any length
make_servfail_AnyLength(q) == Servfail(q)

\* mutation of make_servfail: the reply starts with an ID of its own
make_servfail_OwnId(q) ==
  IF q.len < HeaderLen THEN NoResponse ELSE [Servfail(q) EXCEPT !.id = "i0"]

\* make_servfail(query): None for a query shorter than a header, else the query's
\* ID and question with the SERVFAIL flags and no answer
make_servfail(q) == IF q.len < HeaderLen THEN NoResponse ELSE Servfail(q)

\* extract_answer_ips(response) for the responses of the model: the addresses
\* of the ANCOUNT records the loop of lines 113-131 reads
extract_answer_ips(resp) == SubSeq(resp.ips, 1, resp.ancount)

\* the exchange a handler starts on receiving query q
NewExchange(t, q) ==
  [active |-> TRUE, proto |-> IF t = "udp" THEN "udp" ELSE "tcp", query |-> q,
   domain |-> DomainOrUnknown(extract_query_domain(q)),
   fwd |-> "pending", response |-> NoResponse,
   attempted |-> FALSE, sent |-> FALSE, recorded |-> 0,
   upstream |-> NoResponse, wire |-> Wire("udp", NoResponse)]

\* what is remembered of an exchange that ended
Outcome(e, aborted) ==
  [proto |-> e.proto, qlen |-> e.query.len, fwd |-> e.fwd,
   resp |-> IF e.response.present THEN e.response.kind ELSE "none",
   echo |-> IF e.response.present
            THEN e.response.id = e.query.id /\ e.response.question = e.query.name
            ELSE FALSE,
   attempted |-> e.attempted, sent |-> e.sent, recorded |-> e.recorded,
   aborted |-> aborted]

Running == main_pc \notin {"init", "exited"}

\* DNSMiddleman.start up to tcp_thread.start(): the log is opened, both
\* listener threads are started
StartMiddleman ==
  /\ main_pc = "init"
  /\ main_pc' = "run"
  /\ ordered_fp' = "open"
  /\ log_exists' = TRUE
  /\ th' = [th EXCEPT !["udp"] = "bind", !["tcp"] = "bind"]
  /\ UNCHANGED <<log, wpending, written, blockerVars, call, conn>>
  /\ UNCHANGED <<mm_stop_event, lock, domain_times, domain_ips, query_count,
                 split_file, exch, nq, done_exch>>

\* mutation of StopAfterBind: a bind failure ends the thread only
StopAfterBind_ThreadOnly(ok, stop) == stop

\* self.stop_event after server.bind(...): set in the except branch
StopAfterBind(ok, stop) == IF ok THEN stop ELSE TRUE

\* server.bind(...) in udp_loop / tcp_loop: it succeeds, or the failure raises
\* the stop signal and the thread returns ("bind_failed": returned from the
\* except branch)
Bind(t, ok) ==
  /\ Running
  /\ t \in {"udp", "tcp"}
  /\ th[t] = "bind"
  /\ th' = [th EXCEPT ![t] = IF ok THEN "top" ELSE "bind_failed"]
  /\ mm_stop_event' = StopAfterBind(ok, mm_stop_event)
  /\ UNCHANGED <<fileVars, blockerVars, call, conn>>
  /\ UNCHANGED <<lock, ordered_fp, domain_times, domain_ips, query_count,
                 split_file, main_pc, exch, nq, done_exch>>

\* stop_handler of the middleman's main(): SIGINT or SIGTERM
MiddlemanStopSignal ==
  /\ Running
  /\ ~mm_stop_event
  /\ mm_stop_event' = TRUE
  /\ UNCHANGED <<fileVars, blockerVars, call, conn>>
  /\ UNCHANGED <<lock, ordered_fp, domain_times, domain_ips, query_count,
                 split_file, main_pc, th, exch, nq, done_exch>>

\* start()'s loop: the configured duration has elapsed
DurationElapsed ==
  /\ main_pc = "run"
  /\ ~mm_stop_event
  /\ mm_stop_event' = TRUE
  /\ UNCHANGED <<fileVars, blockerVars, call, conn>>
  /\ UNCHANGED <<lock, ordered_fp, domain_times, domain_ips, query_count,
                 split_file, main_pc, th, exch, nq, done_exch>>

\* mutation of LoopTop: the loop condition is not tested again
LoopTop_IgnoresStop(t) ==
  /\ Running
  /\ th[t] = "top"
  /\ th' = [th EXCEPT ![t] = "wait"]
  /\ UNCHANGED <<fileVars, blockerVars, call, conn>>
  /\ UNCHANGED <<mm_stop_event, lock, ordered_fp, domain_times, domain_ips,
                 query_count, split_file, main_pc, exch, nq, done_exch>>

\* while not self.stop_event.is_set(): in udp_loop, tcp_loop, handle_tcp_client
LoopTop(t) ==
  /\ Running
  /\ th[t] = "top"
  /\ th' = [th EXCEPT ![t] = IF mm_stop_event THEN "returned" ELSE "wait"]
  /\ UNCHANGED <<fileVars, blockerVars, call, conn>>
  /\ UNCHANGED <<mm_stop_event, lock, ordered_fp, domain_times, domain_ips,
                 query_count, split_file, main_pc, exch, nq, done_exch>>

\* recvfrom / accept / recv_exact raises socket.timeout (or, in the listeners,
\* OSError): continue
WaitTimeout(t) ==
  /\ Running
  /\ th[t] = "wait"
  /\ th' = [th EXCEPT ![t] = "top"]
  /\ UNCHANGED <<fileVars, blockerVars, call, conn>>
  /\ UNCHANGED <<mm_stop_event, lock, ordered_fp, domain_times, domain_ips,
                 query_count, split_file, main_pc, exch, nq, done_exch>>

\* tcp_loop: accept returns a connection and its handler thread is started
Accept ==
  /\ Running
  /\ th["tcp"] = "wait"
  /\ th["c1"] = "unstarted"
  /\ th' = [th EXCEPT !["tcp"] = "top", !["c1"] = "top"]
  /\ UNCHANGED <<fileVars, blockerVars, call, conn>>
  /\ UNCHANGED <<mm_stop_event, lock, ordered_fp, domain_times, domain_ips,
                 query_count, split_file, main_pc, exch, nq, done_exch>>

\* handle_tcp_client: recv_exact raises OSError, or returns None (the client
\* closed the connection): return
Disconnect ==
  /\ Running
  /\ th["c1"] = "wait"
  /\ th' = [th EXCEPT !["c1"] = "returned"]
  /\ UNCHANGED <<fileVars, blockerVars, call, conn>>
  /\ UNCHANGED <<mm_stop_event, lock, ordered_fp, domain_times, domain_ips,
                 query_count, split_file, main_pc, exch, nq, done_exch>>

\* a query arrives: server.recvfrom (UDP), or the two recv_exact calls (TCP)
Receive(t, q) ==
  /\ Running
  /\ t \in Workers
  /\ th[t] = "wait"
  /\ nq < MaxQueries
  /\ nq' = nq + 1
  /\ exch' = [exch EXCEPT ![t] = NewExchange(t, q)]
  /\ th' = [th EXCEPT ![t] = "forward"]
  /\ UNCHANGED <<fileVars, blockerVars, call, conn>>
  /\ UNCHANGED <<mm_stop_event, lock, ordered_fp, domain_times, domain_ips,
                 query_count, split_file, main_pc, done_exch>>

\* response = self.forward_udp/forward_tcp(query), make_servfail when it is
\* None, and "continue" when that is None too
Forward(t, up) ==
  /\ Running
  /\ t \in Workers
  /\ th[t] = "forward"
  /\ LET e    == exch[t]
         resp == IF up.ok THEN Answer(e.query, up.ips) ELSE make_servfail(e.query)
         e2   == [e EXCEPT !.fwd = IF up.ok THEN "ok" ELSE "fail",
                           !.response = resp,
                           !.upstream = IF up.ok THEN Answer(e.query, up.ips)
                                        ELSE NoResponse]
     IN IF resp.present
        THEN /\ exch' = [exch EXCEPT ![t] = e2]
             /\ th' = [th EXCEPT ![t] = "send"]
             /\ UNCHANGED done_exch
        ELSE /\ exch' = [exch EXCEPT ![t] = NoExch]
             /\ th' = [th EXCEPT ![t] = "top"]
             /\ done_exch' = done_exch \cup {Outcome(e2, FALSE)}
  /\ UNCHANGED <<fileVars, blockerVars, call, conn>>
  /\ UNCHANGED <<mm_stop_event, lock, ordered_fp, domain_times, domain_ips,
                 query_count, split_file, main_pc, nq>>

\* server.sendto(response, client_addr) / conn.sendall(length + response); on
\* OSError the UDP loop continues and the TCP handler returns
Send(t, ok) ==
  /\ Running
  /\ t \in Workers
  /\ th[t] = "send"
  /\ LET e2 == [exch[t] EXCEPT !.attempted = TRUE, !.sent = ok,
                               !.wire = Wire(exch[t].proto, exch[t].response)] IN
     IF ok
     THEN /\ exch' = [exch EXCEPT ![t] = e2]
          /\ th' = [th EXCEPT ![t] = "record"]
          /\ UNCHANGED done_exch
     ELSE /\ exch' = [exch EXCEPT ![t] = NoExch]
          /\ th' = [th EXCEPT ![t] = IF t = "udp" THEN "top" ELSE "returned"]
          /\ done_exch' = done_exch \cup {Outcome(e2, FALSE)}
  /\ UNCHANGED <<fileVars, blockerVars, call, conn>>
  /\ UNCHANGED <<mm_stop_event, lock, ordered_fp, domain_times, domain_ips,
                 query_count, split_file, main_pc, nq>>

\* mutation of LockFree: the lock is taken whether or not it is held
LockFree_Always == TRUE

\* with self.lock: the lock can be taken
LockFree == lock = "free"

\* record_event: ips = extract_answer_ips(response), the line is rendered, and
\* the lock is acquired
RecordEventEnter(t) ==
  /\ Running
  /\ t \in Workers
  /\ th[t] = "record"
  /\ LockFree
  /\ lock' = t
  /\ th' = [th EXCEPT ![t] = "cs_write"]
  /\ UNCHANGED <<fileVars, blockerVars, call, conn>>
  /\ UNCHANGED <<mm_stop_event, ordered_fp, domain_times, domain_ips,
                 query_count, split_file, main_pc, exch, nq, done_exch>>

\* mutation of RecordOf: the line is rendered without the response's addresses
RecordOf_NoIps(t, ts) ==
  [domain |-> exch[t].domain, time |-> ts, ips |-> << >>]

\* the record record_event renders for the exchange of thread t
RecordOf(t, ts) ==
  [domain |-> exch[t].domain, time |-> ts,
   ips |-> extract_answer_ips(exch[t].response)]

\* self.ordered_fp.write(line + "\n"); flush() under the lock.  On a closed file
\* write raises ValueError: the lock is released and the thread ends.
RecordEventWrite(t) ==
  /\ Running
  /\ t \in Workers
  /\ th[t] = "cs_write"
  /\ IF ordered_fp = "open"
     THEN \E ts \in Times :
            /\ log' = log \o RenderLine(RecordOf(t, ts))
            /\ written' = Append(written, RecordOf(t, ts))
            /\ th' = [th EXCEPT ![t] = "cs_update"]
            /\ UNCHANGED <<lock, exch, done_exch>>
     ELSE /\ lock' = "free"
          /\ th' = [th EXCEPT ![t] = "died"]
          /\ exch' = [exch EXCEPT ![t] = NoExch]
          /\ done_exch' = done_exch \cup {Outcome(exch[t], FALSE)}
          /\ UNCHANGED <<log, written>>
  /\ UNCHANGED <<log_exists, wpending, blockerVars, call, conn>>
  /\ UNCHANGED <<mm_stop_event, ordered_fp, domain_times, domain_ips,
                 query_count, split_file, main_pc, nq>>

\* the rest of the locked block: domain_times, domain_ips, query_count; then the
\* lock is released and the handler goes back to its loop
RecordEventUpdate(t) ==
  /\ Running
  /\ t \in Workers
  /\ th[t] = "cs_update"
  /\ LET r == written[Len(written)]
         e2 == [exch[t] EXCEPT !.recorded = 1]
     IN /\ domain_times' = [domain_times EXCEPT ![exch[t].domain] = Append(@, r.time)]
        /\ domain_ips' = [domain_ips EXCEPT ![exch[t].domain] =
                            @ \cup SeqToSet(extract_answer_ips(exch[t].response))]
        /\ done_exch' = done_exch \cup {Outcome(e2, FALSE)}
  /\ query_count' = query_count + 1
  /\ lock' = "free"
  /\ exch' = [exch EXCEPT ![t] = NoExch]
  /\ th' = [th EXCEPT ![t] = "top"]
  /\ UNCHANGED <<fileVars, blockerVars, call, conn>>
  /\ UNCHANGED <<mm_stop_event, ordered_fp, split_file, main_pc, nq>>

\* start(): the loop sees the stop signal; finally: flush_outputs() snapshots
\* domain_times under the lock and writes the split file
FlushOutputs ==
  /\ main_pc = "run"
  /\ mm_stop_event
  /\ LockFree
  /\ split_file' = [written |-> TRUE, payload |-> domain_times]
  /\ main_pc' = "flushed"
  /\ UNCHANGED <<fileVars, blockerVars, call, conn>>
  /\ UNCHANGED <<mm_stop_event, lock, ordered_fp, domain_times, domain_ips,
                 query_count, th, exch, nq, done_exch>>

\* self.ordered_fp.close()
CloseOrderedLog ==
  /\ main_pc = "flushed"
  /\ ordered_fp' = "closed"
  /\ main_pc' = "closed"
  /\ UNCHANGED <<fileVars, blockerVars, call, conn>>
  /\ UNCHANGED <<mm_stop_event, lock, domain_times, domain_ips, query_count,
                 split_file, th, exch, nq, done_exch>>

\* start() returns, main() returns and the interpreter exits: the threads are
\* daemon threads, so those still running end here, whatever they were doing
ProcessExit ==
  /\ main_pc = "closed"
  /\ main_pc' = "exited"
  /\ th' = [t \in Threads |->
              IF th[t] \in {"unstarted", "returned", "bind_failed", "died"}
              THEN th[t] ELSE "killed"]
  /\ done_exch' = done_exch \cup
                    {Outcome(exch[t], TRUE) : t \in {u \in Workers : exch[u].active}}
  /\ exch' = [t \in Workers |-> NoExch]
  /\ UNCHANGED <<fileVars, blockerVars, call, conn>>
  /\ UNCHANGED <<mm_stop_event, lock, ordered_fp, domain_times, domain_ips,
                 query_count, split_file, nq>>

MiddlemanInit ==
  /\ FileInit
  /\ BlockerInit
  /\ ProxyInit
  /\ call = NoCall
  /\ pf_enabled = FALSE
  /\ pc = "idle"

ProxyNext ==
  \/ StartMiddleman
  \/ \E t \in {"udp", "tcp"} : \E ok \in BOOLEAN : Bind(t, ok)
  \/ MiddlemanStopSignal
  \/ DurationElapsed
  \/ \E t \in Threads : LoopTop(t)
  \/ \E t \in Threads : WaitTimeout(t)
  \/ Accept
  \/ Disconnect
  \/ \E t \in Workers : \E q \in Queries : Receive(t, q)
  \/ \E t \in Workers : \E up \in Upstream : Forward(t, up)
  \/ \E t \in Workers : \E ok \in BOOLEAN : Send(t, ok)
  \/ \E t \in Workers : RecordEventEnter(t)
  \/ \E t \in Workers : RecordEventWrite(t)
  \/ \E t \in Workers : RecordEventUpdate(t)
  \/ FlushOutputs
  \/ CloseOrderedLog
  \/ ProcessExit

ProxySpec == MiddlemanInit /\ [][ProxyNext]_vars

\* The scheduling of the middleman's process: the main thread is not starved
\* (its loop wakes every 0.2 s, then flush, close and return follow), and a
\* thread inside record_event's locked block runs on until it releases the lock.
ProxyFairness ==
  /\ WF_vars(FlushOutputs)
  /\ WF_vars(CloseOrderedLog)
  /\ WF_vars(ProcessExit)
  /\ \A t \in Workers : WF_vars(RecordEventWrite(t))
  /\ \A t \in Workers : WF_vars(RecordEventUpdate(t))

ProxyFairSpec == ProxySpec /\ ProxyFairness

\* --------------------------------------------------- the two stop flags
\* Each process on its own: the middleman with its threads (no blocker
\* running), or the blocker's main() (lines are appended for the middleman).
\* (ShutdownSpec starts from MiddlemanInit or from SyncInit.)

\* the middleman while the upstream resolver does not answer: every forward
\* ends in a failure or a timeout, and the reply, if any, is a SERVFAIL
MiddlemanSteps ==
  \/ StartMiddleman
  \/ \E t \in {"udp", "tcp"} : \E ok \in BOOLEAN : Bind(t, ok)
  \/ MiddlemanStopSignal
  \/ DurationElapsed
  \/ \E t \in Threads : LoopTop(t)
  \/ \E t \in Threads : WaitTimeout(t)
  \/ Accept
  \/ Disconnect
  \/ \E t \in Workers : \E q \in Queries : Receive(t, q)
  \/ \E t \in Workers : \E up \in {u \in Upstream : ~u.ok} : Forward(t, up)
  \/ \E t \in Workers : \E ok \in BOOLEAN : Send(t, ok)
  \/ \E t \in Workers : RecordEventEnter(t)
  \/ \E t \in Workers : RecordEventWrite(t)
  \/ \E t \in Workers : RecordEventUpdate(t)
  \/ FlushOutputs
  \/ CloseOrderedLog
  \/ ProcessExit

\* the blocker's main() while no packet meets the block rule
BlockerSteps ==
  \/ OpenOrderedLog
  \/ \E r \in SyncRecords : SyncAppend(r)
  \/ StopSignal
  \/ Startup
  \/ LoopTest
  \/ ConsumeOpen("consume", "check")
  \/ ReadLine("check")
  \/ Converge
  \/ WriteSnapshot
  \/ Sleep
  \/ LoopBodyRaises
  \/ FinalWrite
  \/ FinalWriteRaises
  \/ FinalClear

ShutdownNext ==
  \/ pc = "idle" /\ MiddlemanSteps
  \/ pc # "idle" /\ BlockerSteps

\* the statements of main() that follow one another without waiting for input,
\* but for the reading of a line
MainStep ==
  \/ Startup
  \/ LoopTest
  \/ ConsumeOpen("consume", "check")
  \/ Converge
  \/ WriteSnapshot
  \/ Sleep
  \/ FinalWrite
  \/ FinalClear

\* the steps of thread t of the middleman that do not wait for a client
ThreadStep(t) ==
  \/ \E ok \in BOOLEAN : Bind(t, ok)
  \/ LoopTop(t)
  \/ WaitTimeout(t)
  \/ \E up \in Upstream : Forward(t, up)
  \/ \E ok \in BOOLEAN : Send(t, ok)
  \/ RecordEventEnter(t)
  \/ RecordEventWrite(t)
  \/ RecordEventUpdate(t)

\* The last conjunct is the weak fairness of ReadLine("check"), which is
\* enabled exactly when main() is in the read loop: the loop is left again and
\* again, or lines go on being read.
\* Every thread that can run does run, and its blocking calls end: recvfrom,
\* accept and recv_exact return or time out after 1 s (settimeout(1.0)), the
\* upstream forward returns or times out (timeout_seconds), a send returns.
\* The middleman's main thread is not assumed to leave start().
ShutdownSpec ==
  /\ MiddlemanInit \/ SyncInit
  /\ [][ShutdownNext]_vars
  /\ \A t \in Threads : WF_vars(ThreadStep(t))
  /\ WF_vars(MainStep)
  /\ ([]<>(pc # "reading")) \/ ([]<><<ReadLine("check")>>_vars)

\* ------------------------------------------------------ the Message Codec
\* A buffer is a sequence of bytes 0..255; Python indexes it from 0.  Text the
\* codec returns is the sequence of its character codes.

\* data[i]; the model reads 0 where Python would raise IndexError, and
\* decode_dns_name's `reads` records every index it used
At(data, i) == IF i >= 0 /\ i < Len(data) THEN data[i + 1] ELSE 0

\* data[a:b] for 0 <= a <= b: a slice stops at the end of the buffer
Slice(data, a, b) ==
  SubSeq(data, a + 1, IF b < Len(data) THEN b ELSE Len(data))

\* struct.unpack("!H", data[i:i+2])[0]
U16(data, i) == At(data, i) * 256 + At(data, i + 1)

\* bytes.decode("utf-8", errors="ignore") for buffers whose bytes above 127
\* are all 0xC0, which starts no valid sequence: every such byte is dropped
Utf8Ignore(bytes) == SelectSeq(bytes, LAMBDA b : b < 128)

\* str.lower() of ASCII text: "A".."Z" are 65..90, "a" is 97
LowerText(text) ==
  [i \in 1..Len(text) |->
     IF text[i] >= 65 /\ text[i] <= 90 THEN text[i] + 32 ELSE text[i]]

\* ".".join(part for part in labels if part); "." is 46
RECURSIVE JoinLabels(_)
JoinLabels(labels) ==
  IF labels = << >> THEN << >>
  ELSE IF Head(labels) = << >> THEN JoinLabels(Tail(labels))
  ELSE LET rest == JoinLabels(Tail(labels))
       IN IF rest = << >> THEN Head(labels) ELSE Head(labels) \o <<46>> \o rest

\* str.strip(".")
RECURSIVE StripDots(_)
StripDots(text) ==
  IF text = << >> THEN text
  ELSE IF Head(text) = 46 THEN StripDots(Tail(text))
  ELSE IF text[Len(text)] = 46 THEN StripDots(SubSeq(text, 1, Len(text) - 1))
  ELSE text

\* the locals of decode_dns_name(data, offset) on entry to its loop, with the
\* history of the call: the pointers followed, the indexes read, and whether
\* the loop ended on a pointer it had followed before
DecodeEnter(data, offset) ==
  [fn |-> "decode_dns_name", data |-> data, offset |-> offset,
   labels |-> << >>, cursor |-> offset, end_offset |-> offset,
   jumped |-> FALSE, seen_pointers |-> {}, at |-> "loop",
   followed |-> << >>, reads |-> {}, loop |-> FALSE,
   name |-> << >>, result |-> offset]

\* mutation of PointerTruncated: the second byte of a pointer is read unchecked
PointerTruncated_Unchecked(data, cursor) == FALSE

\* if cursor + 1 >= len(data): break
PointerTruncated(data, cursor) == cursor + 1 >= Len(data)

\* mutation of PointerSeen: a pointer is followed however often it occurs
PointerSeen_Never(pointer, seen_pointers) == FALSE

\* if pointer in seen_pointers: break
PointerSeen(pointer, seen_pointers) == pointer \in seen_pointers

\* one iteration of `while True`
DecodeIter(st) ==
  LET data == st.data
      cursor == st.cursor
      length == At(data, cursor)
      s1 == [st EXCEPT !.reads = @ \cup {cursor}]
      pointer == (length % 64) * 256 + At(data, cursor + 1)
      s2 == [s1 EXCEPT !.reads = @ \cup {cursor + 1}]
  IN IF cursor >= Len(data) THEN [st EXCEPT !.at = "return"]
     ELSE IF length = 0
     THEN [s1 EXCEPT !.cursor = cursor + 1,
                     !.end_offset = IF st.jumped THEN @ ELSE cursor + 1,
                     !.at = "return"]
     ELSE IF length \div 64 = 3        \* length & 0xC0 == 0xC0
     THEN IF PointerTruncated(data, cursor) THEN [s1 EXCEPT !.at = "return"]
          ELSE IF PointerSeen(pointer, st.seen_pointers)
          THEN [s2 EXCEPT !.at = "return", !.loop = TRUE]
          ELSE [s2 EXCEPT !.seen_pointers = @ \cup {pointer},
                          !.end_offset = IF st.jumped THEN @ ELSE cursor + 2,
                          !.cursor = pointer,
                          !.jumped = TRUE,
                          !.followed = Append(@, pointer)]
     ELSE IF length \div 64 # 0        \* length & 0xC0
     THEN [s1 EXCEPT !.at = "return"]
     ELSE IF cursor + 1 + length > Len(data)
     THEN [s1 EXCEPT !.cursor = cursor + 1, !.at = "return"]
     ELSE [s1 EXCEPT !.labels = Append(@, Utf8Ignore(Slice(data, cursor + 1,
                                                           cursor + 1 + length))),
                     !.cursor = cursor + 1 + length,
                     !.end_offset = IF st.jumped THEN @ ELSE cursor + 1 + length,
                     !.reads = @ \cup ((cursor + 1)..(cursor + length))]

\* the lines after the loop: the name, and the offset returned
DecodeReturn(st) ==
  [st EXCEPT !.name = LowerText(StripDots(JoinLabels(st.labels))),
             !.result = IF st.end_offset <= st.offset THEN st.cursor
                        ELSE st.end_offset,
             !.at = "returned"]

\* the whole call
RECURSIVE DecodeRun(_)
DecodeRun(st) ==
  IF st.at = "loop" THEN DecodeRun(DecodeIter(st)) ELSE DecodeReturn(st)

decode_dns_name(data, offset) ==
  LET st == DecodeRun(DecodeEnter(data, offset))
  IN [name |-> st.name, end_offset |-> st.result]

\* the sequences of up to n elements of S
RECURSIVE SeqsOf(_, _)
SeqsOf(S, n) ==
  IF n = 0 THEN {<< >>}
  ELSE LET shorter == SeqsOf(S, n - 1)
       IN shorter \cup {Append(q, x) : q \in {s \in shorter : Len(s) = n - 1},
                                       x \in S}

\* The buffers decode_dns_name is run on: all of up to MaxBufLen bytes out of
\* the end of a name, two label lengths, a length with a flag bit, a letter and
\* the first byte of a pointer; and four longer ones: two labels followed by a
\* pointer back to the first, "Y" and "o" and "Y.o" reached through a pointer,
\* a label followed by a pointer to itself.
DecodeBuffers ==
  SeqsOf({0, 1, 2, 64, 89, 192}, MaxBufLen)
    \cup { <<1, 89, 1, 111, 192, 0>>,
           <<192, 3, 0, 1, 89, 1, 111, 0>>,
           <<1, 89, 192, 5, 0, 1, 111, 0>>,
           <<1, 89, 192, 2, 0, 0>> }

\* a call with any of the buffers and a start offset inside the buffer, at its
\* end or one beyond it
DecodeInit ==
  /\ FileInit
  /\ BlockerInit
  /\ ProxyInit
  /\ pf_enabled = FALSE
  /\ pc = "idle"
  /\ \E data \in DecodeBuffers : \E offset \in 0..(Len(data) + 1) :
       call = DecodeEnter(data, offset)

\* decode_dns_name runs one iteration of its loop
DecodeStep ==
  /\ call.fn = "decode_dns_name"
  /\ call.at = "loop"
  /\ call' = DecodeIter(call)
  /\ UNCHANGED <<fileVars, blockerVars, proxyVars>>

\* decode_dns_name left its loop and returns
DecodeExit ==
  /\ call.fn = "decode_dns_name"
  /\ call.at = "return"
  /\ call' = DecodeReturn(call)
  /\ UNCHANGED <<fileVars, blockerVars, proxyVars>>

DecodeNext == DecodeStep \/ DecodeExit

\* the call is sequential code: it runs on
DecodeSpec == DecodeInit /\ [][DecodeNext]_vars /\ WF_vars(DecodeNext)

\* ------------------------------------- the Message Codec on whole messages
\* None, and a value that is not None
Absent == [present |-> FALSE]

Present(value) == [present |-> TRUE, value |-> value]

\* mutation of extract_query_domain_bytes: the question count is not looked at
extract_query_domain_bytes_AnyCount(payload) ==
  IF Len(payload) < HeaderLen THEN Absent
  ELSE LET domain == decode_dns_name(payload, HeaderLen).name
       IN IF domain = << >> THEN Absent ELSE Present(domain)

\* extract_query_domain(payload) on the bytes of a message; `domain or None`
\* turns the empty name into None
extract_query_domain_bytes(payload) ==
  IF Len(payload) < HeaderLen THEN Absent
  ELSE IF U16(payload, 4) = 0 THEN Absent
  ELSE LET domain == decode_dns_name(payload, HeaderLen).name
       IN IF domain = << >> THEN Absent ELSE Present(domain)

\* str(n) for a byte, as character codes
RECURSIVE Decimal(_)
Decimal(n) ==
  IF n < 10 THEN <<48 + n>> ELSE Decimal(n \div 10) \o <<48 + (n % 10)>>

\* socket.inet_ntoa(rdata) for 4 bytes
inet_ntoa(rdata) ==
  Decimal(rdata[1]) \o <<46>> \o Decimal(rdata[2]) \o <<46>>
    \o Decimal(rdata[3]) \o <<46>> \o Decimal(rdata[4])

\* socket.inet_ntop(AF_INET6, rdata) for the addresses ::1 to ::9, the only
\* ones the model's answers hold: "::" and the last digit
inet_ntop(rdata) == <<58, 58, 48 + rdata[16]>>

\* a < b for str: the first differing character decides, a proper prefix is
\* smaller
RECURSIVE TextLess(_, _)
TextLess(a, b) ==
  IF b = << >> THEN FALSE
  ELSE IF a = << >> THEN TRUE
  ELSE IF Head(a) # Head(b) THEN Head(a) < Head(b)
  ELSE TextLess(Tail(a), Tail(b))

\* sorted(ips) for a set of str
RECURSIVE sorted(_)
sorted(ips) ==
  IF ips = {} THEN << >>
  ELSE LET first == CHOOSE a \in ips : \A b \in ips \ {a} : TextLess(a, b)
       IN <<first>> \o sorted(ips \ {first})

\* the first loop of extract_answer_ips: the offset after qdcount questions,
\* -1 when the function returns [] from inside the loop
RECURSIVE SkipQuestions(_, _, _)
SkipQuestions(payload, qdcount, offset) ==
  IF qdcount = 0 THEN offset
  ELSE LET after == decode_dns_name(payload, offset).end_offset
       IN IF after + 4 > Len(payload) THEN -1
          ELSE SkipQuestions(payload, qdcount - 1, after + 4)

\* mutation of OtherClass: records of every class are looked at
OtherClass_None(rclass) == FALSE

\* if rclass != 1: continue
OtherClass(rclass) == rclass # 1

\* the second loop of extract_answer_ips: ips after ancount more records
RECURSIVE CollectAnswers(_, _, _, _)
CollectAnswers(payload, ancount, start, ips) ==
  IF ancount = 0 THEN ips
  ELSE LET offset == decode_dns_name(payload, start).end_offset
           rtype == U16(payload, offset)
           rclass == U16(payload, offset + 2)
           rdlen == U16(payload, offset + 8)
           rdata == Slice(payload, offset + 10, offset + 10 + rdlen)
       IN IF offset + 10 > Len(payload) THEN ips
          ELSE IF offset + 10 + rdlen > Len(payload) THEN ips
          ELSE CollectAnswers(payload, ancount - 1, offset + 10 + rdlen,
                 IF OtherClass(rclass) THEN ips
                 ELSE IF rtype = 1 /\ rdlen = 4 THEN ips \cup {inet_ntoa(rdata)}
                 ELSE IF rtype = 28 /\ rdlen = 16 THEN ips \cup {inet_ntop(rdata)}
                 ELSE ips)

\* extract_answer_ips(payload) on the bytes of a message
extract_answer_ips_bytes(payload) ==
  IF Len(payload) < HeaderLen THEN << >>
  ELSE LET offset == SkipQuestions(payload, U16(payload, 4), HeaderLen)
       IN IF offset < 0 THEN << >>
          ELSE sorted(CollectAnswers(payload, U16(payload, 6), offset, {}))

\* make_servfail(query) on the bytes of a message: 0x81 0x82 are the flags
make_servfail_bytes(query) ==
  IF Len(query) < HeaderLen THEN Absent
  ELSE Present(Slice(query, 0, 2) \o <<129, 130>> \o Slice(query, 4, 6)
                 \o <<0, 0, 0, 0, 0, 0>> \o Slice(query, HeaderLen, Len(query)))

\* ---- the messages the three functions are run on
\* a header with the flags of a standard query (RD set); the four counts are
\* 16-bit numbers, big-endian, all below 256 here
Header(id, qdcount, ancount, arcount) ==
  id \o <<1, 0, 0, qdcount, 0, ancount, 0, 0, 0, arcount>>

\* a name stored inline: each label behind its length, then the zero byte
RECURSIVE EncodeName(_)
EncodeName(labels) ==
  IF labels = << >> THEN <<0>>
  ELSE <<Len(Head(labels).bytes)>> \o Head(labels).bytes \o EncodeName(Tail(labels))

\* QTYPE A, QCLASS IN
QFixed == <<0, 1, 0, 1>>

\* an EDNS OPT record, as resolvers append it to a query: root name, type 41,
\* UDP size 4096, no options
OptRecord == <<0, 0, 41, 16, 0, 0, 0, 0, 0, 0, 0>>

\* Labels with the text the name shows for them: "Y", "o-", and two that are
\* not host name text: ".Y" begins with a dot, the byte 0xC0 is no UTF-8.
QueryLabels ==
  { [bytes |-> <<89>>, text |-> <<121>>, plain |-> TRUE],
    [bytes |-> <<111, 45>>, text |-> <<111, 45>>, plain |-> TRUE],
    [bytes |-> <<46, 89>>, text |-> <<46, 121>>, plain |-> FALSE],
    [bytes |-> <<192>>, text |-> <<192>>, plain |-> FALSE] }

\* The bytes between the header and the additional section.  The question
\* stores its name inline, or as a pointer to the name stored behind the
\* question, or the first label inline and a pointer to the rest.
QuestionBytes(labels, style) ==
  IF style = "inline" \/ (style = "tail" /\ labels = << >>)
  THEN EncodeName(labels) \o QFixed
  ELSE IF style = "pointer"
  THEN <<192, HeaderLen + 6>> \o QFixed \o EncodeName(labels)
  ELSE <<Len(labels[1].bytes)>> \o labels[1].bytes
         \o <<192, HeaderLen + Len(labels[1].bytes) + 7>> \o QFixed
         \o EncodeName(Tail(labels))

\* Queries: a transaction ID, a question count, a question, with or without
\* an OPT record behind it, whole or cut to less than a header.
QueryInputs ==
  [id : {<<18, 52>>, <<0, 7>>}, qdcount : {0, 1},
   labels : SeqsOf(QueryLabels, MaxLabels),
   style : {"inline", "pointer", "tail"}, opt : BOOLEAN, short : BOOLEAN]

QueryPayload(q) ==
  LET whole == Header(q.id, q.qdcount, 0, IF q.opt THEN 1 ELSE 0)
                 \o QuestionBytes(q.labels, q.style)
                 \o (IF q.opt THEN OptRecord ELSE << >>)
  IN IF q.short THEN SubSeq(whole, 1, HeaderLen - 1) ELSE whole

\* Resource records of an answer section, with the address text the record
\* stands for (empty when it stands for none): A 0.0.0.2, A 0.0.0.10, AAAA ::1,
\* an A record of class CHAOS, a TXT record of four bytes, a CNAME whose owner
\* name is stored inline.
AnswerKinds ==
  { [owner |-> <<192, 12>>, rtype |-> 1, rclass |-> 1, rdata |-> <<0, 0, 0, 2>>,
     addr |-> <<48, 46, 48, 46, 48, 46, 50>>],
    [owner |-> <<192, 12>>, rtype |-> 1, rclass |-> 1, rdata |-> <<0, 0, 0, 10>>,
     addr |-> <<48, 46, 48, 46, 48, 46, 49, 48>>],
    [owner |-> <<192, 12>>, rtype |-> 28, rclass |-> 1,
     rdata |-> <<0, 0, 0, 0, 0, 0, 0, 0, 0, 0, 0, 0, 0, 0, 0, 1>>,
     addr |-> <<58, 58, 49>>],
    [owner |-> <<192, 12>>, rtype |-> 1, rclass |-> 3, rdata |-> <<0, 0, 0, 2>>,
     addr |-> << >>],
    [owner |-> <<192, 12>>, rtype |-> 16, rclass |-> 1, rdata |-> <<3, 89, 89, 89>>,
     addr |-> << >>],
    [owner |-> <<1, 89, 0>>, rtype |-> 5, rclass |-> 1, rdata |-> <<192, 12>>,
     addr |-> << >>] }

\* the bytes of a record: owner name, type, class, TTL 60, rdlength, rdata
RecordBytes(r) ==
  r.owner \o <<0, r.rtype, 0, r.rclass, 0, 0, 0, 60, 0, Len(r.rdata)>> \o r.rdata

RECURSIVE AllRecordBytes(_)
AllRecordBytes(records) ==
  IF records = << >> THEN << >>
  ELSE RecordBytes(Head(records)) \o AllRecordBytes(Tail(records))

\* the question of the responses: "Y", stored inline at offset 12
ResponseQuestion == <<1, 89, 0>> \o QFixed

ResponseWhole(records, ancount) ==
  Header(<<18, 52>>, 1, ancount, 0) \o ResponseQuestion \o AllRecordBytes(records)

\* Responses: records, the answer count declared (up to one more than are
\* there; records beyond it belong to the next section), and the number of
\* bytes that arrived.
ResponseInputs ==
  { [records |-> rs, ancount |-> n, cut |-> c] :
      rs \in SeqsOf(AnswerKinds, MaxAnswers), n \in 0..(MaxAnswers + 1),
      c \in HeaderLen..(HeaderLen + 7 + 28 * MaxAnswers) }

CodecInit ==
  /\ FileInit
  /\ BlockerInit
  /\ ProxyInit
  /\ pf_enabled = FALSE
  /\ pc = "idle"
  /\ \/ \E q \in QueryInputs :
          call = [fn |-> "extract_query_domain", input |-> q,
                  payload |-> QueryPayload(q), at |-> "call", result |-> Absent]
     \/ \E q \in QueryInputs :
          call = [fn |-> "make_servfail", input |-> q,
                  payload |-> QueryPayload(q), at |-> "call", result |-> Absent]
     \/ \E r \in {x \in ResponseInputs :
                    /\ x.ancount <= Len(x.records) + 1
                    /\ x.cut <= Len(ResponseWhole(x.records, x.ancount))} :
          call = [fn |-> "extract_answer_ips", input |-> r,
                  payload |-> SubSeq(ResponseWhole(r.records, r.ancount), 1, r.cut),
                  at |-> "call", result |-> << >>]

\* extract_query_domain(payload) runs
ExtractQueryDomain ==
  /\ call.fn = "extract_query_domain"
  /\ call.at = "call"
  /\ call' = [call EXCEPT !.result = extract_query_domain_bytes(call.payload),
                          !.at = "returned"]
  /\ UNCHANGED <<fileVars, blockerVars, proxyVars>>

\* extract_answer_ips(payload) runs
ExtractAnswerIps ==
  /\ call.fn = "extract_answer_ips"
  /\ call.at = "call"
  /\ call' = [call EXCEPT !.result = extract_answer_ips_bytes(call.payload),
                          !.at = "returned"]
  /\ UNCHANGED <<fileVars, blockerVars, proxyVars>>

\* make_servfail(query) runs
MakeServfail ==
  /\ call.fn = "make_servfail"
  /\ call.at = "call"
  /\ call' = [call EXCEPT !.result = make_servfail_bytes(call.payload),
                          !.at = "returned"]
  /\ UNCHANGED <<fileVars, blockerVars, proxyVars>>

CodecNext == ExtractQueryDomain \/ ExtractAnswerIps \/ MakeServfail

CodecSpec == CodecInit /\ [][CodecNext]_vars

\* ================================================================ claims
\* ------------------------------------------------------ TCP framing
\* Messages the client sends on the connection in one run of the model.
MaxMessages == 2

\* the message bodies the client sends
Bodies == {<< >>, <<7>>}

\* the bytes of the client's messages, each behind the two bytes of its
\* length (struct.pack("!H", len(query)) + query)
RECURSIVE Stream(_)
Stream(msgs) ==
  IF msgs = << >> THEN << >>
  ELSE <<Len(Head(msgs)) \div 256, Len(Head(msgs)) % 256>> \o Head(msgs)
         \o Stream(Tail(msgs))

\* the state after tcp_loop accepted a connection and started its handler:
\* the log is open, both listeners wait, the handler is at its loop condition
FramingInit ==
  /\ BlockerInit
  /\ pf_enabled = FALSE
  /\ pc = "idle"
  /\ call = NoCall
  /\ log_exists = TRUE
  /\ log = << >>
  /\ wpending = << >>
  /\ written = << >>
  /\ mm_stop_event = FALSE
  /\ lock = "free"
  /\ ordered_fp = "open"
  /\ domain_times = [d \in ProxyDomains |-> << >>]
  /\ domain_ips = [d \in ProxyDomains |-> {}]
  /\ query_count = 0
  /\ split_file = NoFile
  /\ main_pc = "run"
  /\ th = [t \in Threads |-> IF t = "c1" THEN "top" ELSE "wait"]
  /\ exch = [t \in Workers |-> NoExch]
  /\ nq = 0
  /\ done_exch = {}
  /\ conn = NoConn

\* the client sends one more message
ClientSend(body) ==
  /\ conn.open
  /\ Len(conn.msgs) < MaxMessages
  /\ conn' = [conn EXCEPT !.msgs = Append(@, body)]
  /\ UNCHANGED <<fileVars, blockerVars, call>>
  /\ UNCHANGED <<mm_stop_event, lock, ordered_fp, domain_times, domain_ips,
                 query_count, split_file, main_pc, th, exch, nq, done_exch>>

\* k more of the bytes sent reach the proxy's socket
Arrive(k) ==
  /\ k \in 1..(Len(Stream(conn.msgs)) - conn.arrived)
  /\ conn' = [conn EXCEPT !.arrived = @ + k]
  /\ UNCHANGED <<fileVars, blockerVars, call>>
  /\ UNCHANGED <<mm_stop_event, lock, ordered_fp, domain_times, domain_ips,
                 query_count, split_file, main_pc, th, exch, nq, done_exch>>

\* the client closes its end
ClientClose ==
  /\ conn.open
  /\ conn' = [conn EXCEPT !.open = FALSE]
  /\ UNCHANGED <<fileVars, blockerVars, call>>
  /\ UNCHANGED <<mm_stop_event, lock, ordered_fp, domain_times, domain_ips,
                 query_count, split_file, main_pc, th, exch, nq, done_exch>>

\* the handler is inside recv_exact and its buffer is still short
InRecv == th["c1"] = "wait" /\ Len(conn.buf) < conn.size

\* what a recv that does not return data is recorded as
RecvOutcome(result) == [result |-> result, stage |-> conn.stage, got |-> Len(conn.buf)]

\* recv_exact: chunk = sock.recv(size - len(buf)) returns k bytes;
\* buf.extend(chunk)
Recv(k) ==
  /\ Running
  /\ InRecv
  /\ k \in 1..(conn.arrived - conn.taken)
  /\ k <= conn.size - Len(conn.buf)
  /\ conn' = [conn EXCEPT
                !.buf = @ \o SubSeq(Stream(conn.msgs), conn.taken + 1, conn.taken + k),
                !.taken = @ + k,
                !.last = RecvOutcome("data")]
  /\ UNCHANGED <<fileVars, blockerVars, call>>
  /\ UNCHANGED <<mm_stop_event, lock, ordered_fp, domain_times, domain_ips,
                 query_count, split_file, main_pc, th, exch, nq, done_exch>>

\* mutation of RecvEmpty: the handler goes back to its loop condition
RecvEmpty_Continue ==
  /\ Running
  /\ InRecv
  /\ ~conn.open
  /\ conn.taken = Len(Stream(conn.msgs))
  /\ conn' = [conn EXCEPT !.last = RecvOutcome("empty"), !.stage = "prefix",
                          !.size = 2, !.buf = << >>, !.start = conn.taken]
  /\ th' = [th EXCEPT !["c1"] = "top"]
  /\ UNCHANGED <<fileVars, blockerVars, call>>
  /\ UNCHANGED <<mm_stop_event, lock, ordered_fp, domain_times, domain_ips,
                 query_count, split_file, main_pc, exch, nq, done_exch>>

\* recv returns b"" (the client closed and every byte was read): recv_exact
\* returns None and the handler returns, which closes conn
RecvEmpty ==
  /\ Running
  /\ InRecv
  /\ ~conn.open
  /\ conn.taken = Len(Stream(conn.msgs))
  /\ conn' = [conn EXCEPT !.last = RecvOutcome("empty")]
  /\ th' = [th EXCEPT !["c1"] = "returned"]
  /\ UNCHANGED <<fileVars, blockerVars, call>>
  /\ UNCHANGED <<mm_stop_event, lock, ordered_fp, domain_times, domain_ips,
                 query_count, split_file, main_pc, exch, nq, done_exch>>

\* recv raises: socket.timeout when no byte came within the second, another
\* OSError at any time.  Around recv_exact(conn, 2) the timeout is caught
\* (continue: recv_exact's buf is gone with its frame) and the OSError too
\* (return); around recv_exact(conn, query_len) nothing is caught and the
\* exception ends the thread, `with conn` closing the connection.
RecvRaises(exc) ==
  /\ Running
  /\ InRecv
  /\ exc = "timeout" => conn.taken = conn.arrived
  /\ conn' = [conn EXCEPT !.last = RecvOutcome(exc), !.stage = "prefix",
                          !.size = 2, !.buf = << >>, !.start = conn.taken]
  /\ th' = [th EXCEPT !["c1"] =
              IF conn.stage = "body" THEN "died"
              ELSE IF exc = "timeout" THEN "top" ELSE "returned"]
  /\ UNCHANGED <<fileVars, blockerVars, call>>
  /\ UNCHANGED <<mm_stop_event, lock, ordered_fp, domain_times, domain_ips,
                 query_count, split_file, main_pc, exch, nq, done_exch>>

\* recv_exact returns bytes(buf): after the prefix, query_len is unpacked and
\* recv_exact(conn, query_len) is entered; after the body, the query is whole
RecvExactReturn ==
  /\ Running
  /\ th["c1"] = "wait"
  /\ Len(conn.buf) = conn.size
  /\ IF conn.stage = "prefix"
     THEN /\ conn' = [conn EXCEPT !.stage = "body", !.size = U16(conn.buf, 0),
                                  !.buf = << >>]
          /\ UNCHANGED th
     ELSE /\ conn' = [conn EXCEPT !.stage = "query"]
          /\ th' = [th EXCEPT !["c1"] = "exchange"]
  /\ UNCHANGED <<fileVars, blockerVars, call>>
  /\ UNCHANGED <<mm_stop_event, lock, ordered_fp, domain_times, domain_ips,
                 query_count, split_file, main_pc, exch, nq, done_exch>>

\* the rest of the iteration: forward_tcp(query) is called with the bytes
\* read; then the response is sent and the event recorded (continue), or
\* sendall raises OSError (return)
Exchange(ok) ==
  /\ Running
  /\ th["c1"] = "exchange"
  /\ conn' = [conn EXCEPT
                !.forwarded = Append(@, [start |-> conn.start, query |-> conn.buf]),
                !.stage = "prefix", !.size = 2, !.buf = << >>,
                !.start = conn.taken]
  /\ th' = [th EXCEPT !["c1"] = IF ok THEN "top" ELSE "returned"]
  /\ UNCHANGED <<fileVars, blockerVars, call>>
  /\ UNCHANGED <<mm_stop_event, lock, ordered_fp, domain_times, domain_ips,
                 query_count, split_file, main_pc, exch, nq, done_exch>>

FramingNext ==
  \/ MiddlemanStopSignal
  \/ LoopTop("c1")
  \/ \E body \in Bodies : ClientSend(body)
  \/ \E k \in 1..Len(Stream(conn.msgs)) : Arrive(k)
  \/ ClientClose
  \/ \E k \in 1..Len(Stream(conn.msgs)) : Recv(k)
  \/ RecvEmpty
  \/ \E exc \in {"timeout", "oserror"} : RecvRaises(exc)
  \/ RecvExactReturn
  \/ \E ok \in BOOLEAN : Exchange(ok)

FramingSpec == FramingInit /\ [][FramingNext]_vars

\* ---------------------------------------------------------------- C1
\* C1: the tailer's cursor is never advanced past a line whose terminator has
\* not been written: consumed_bytes is 0 or the offset just after a "\n", so a
\* line without a terminator at EOF is left unconsumed.
C1_CursorOnlyPastTerminatedLines ==
  \/ state.consumed_bytes = 0
  \/ /\ state.consumed_bytes <= Len(log)
     /\ log[state.consumed_bytes] = "\n"

\* ---------------------------------------------------------------- C2
\* C2: every event the tailer accepted is what a complete line the middleman
\* wrote parses to; none is a fragment of a written line.
C2_AcceptedAreWholeRecords ==
  \A i \in 1..Len(accepted) :
    \E j \in 1..Len(written) :
      LET p == parse_ordered_line(RenderLine(written[j])) IN
      p.ok /\ accepted[i] = Event(p)

\* ---------------------------------------------------------------- C3
\* C3: the step of a successful convergence leaves blocked_ips equal to
\* youtube_ips, and no other step changes the value of blocked_ips: the tailer
\* adding to youtube_ips leaves blocked_ips as it was.
C3_EnforcedIsCopy ==
  [][IF pc = "check" /\ cycle'.result = "ok"
     THEN BlockedIps' = state'.youtube_ips
     ELSE BlockedIps' = BlockedIps]_vars

\* a convergence succeeded and the tailer has since added an address
C3_Witness ==
  /\ BlockedIps # {}
  /\ state.youtube_ips # BlockedIps
  /\ BlockedIps \subseteq state.youtube_ips

\* ---------------------------------------------------------------- C4
\* C4: however main() ends (returned, or left by an exception), the anchor's
\* rules and table are cleared.
C4_ClearedOnEveryExit ==
  pc \in {"done", "crashed"} => anchor = ClearedAnchor

\* ---------------------------------------------------------------- C5
\* C5 as claimed: every exchange that ran to its end issued the send of a
\* response to the client, whatever the length of the query.
C5_EveryQueryAnswered ==
  \A e \in done_exch : ~e.aborted => e.attempted

\* C5 amended: every exchange that ran to its end for a query of at least 12
\* bytes issued the send of a response: the upstream's answer when forwarding
\* succeeded, the SERVFAIL of make_servfail when it failed.  An exchange for a
\* shorter query whose forwarding failed ended without any send.
C5_FullQueriesAnswered ==
  \A e \in done_exch :
    ~e.aborted =>
      /\ e.qlen >= HeaderLen =>
           /\ e.attempted
           /\ e.resp = IF e.fwd = "ok" THEN "answer" ELSE "servfail"
      /\ (e.qlen < HeaderLen /\ e.fwd = "fail") => (~e.attempted /\ e.resp = "none")

\* forwarding failed for a full query on each transport and a SERVFAIL was sent
C5_Witness ==
  \A p \in {"udp", "tcp"} :
    \E e \in done_exch :
      /\ e.proto = p
      /\ e.qlen >= HeaderLen
      /\ e.fwd = "fail"
      /\ e.resp = "servfail"
      /\ e.sent

\* ---------------------------------------------------------------- C6
\* C6: an exchange that ended has exactly one line in the Event Log if its
\* response was sent to the client, and none if no response was sent.
C6_OneRecordPerExchange ==
  \A e \in done_exch : e.recorded = IF e.sent THEN 1 ELSE 0

\* ---------------------------------------------------------------- C7
\* the threads inside record_event's locked block
InRecordEvent == {t \in Workers : th[t] \in {"cs_write", "cs_update"}}

\* the number of lines in the Event Log
RECURSIVE CountLines(_)
CountLines(bytes) ==
  IF bytes = << >> THEN 0
  ELSE (IF Head(bytes) = "\n" THEN 1 ELSE 0) + CountLines(Tail(bytes))

\* the bytes of the lines of the records recs, in order
RECURSIVE RenderAll(_)
RenderAll(recs) ==
  IF recs = << >> THEN << >> ELSE RenderLine(Head(recs)) \o RenderAll(Tail(recs))

RECURSIVE SumLen(_, _)
SumLen(f, S) ==
  IF S = {} THEN 0
  ELSE LET d == CHOOSE x \in S : TRUE IN Len(f[d]) + SumLen(f, S \ {d})

\* C7: at most one thread is inside record_event's locked block, and it holds
\* the lock; the Event Log is a sequence of whole lines, one per emission, that
\* runs ahead of query_count and of domain_times by exactly the one line of
\* the thread that is between its write and its updates, and that line is the
\* last one.  So the write and the updates of one event are never interleaved
\* with those of another.  (Stated of the running process: its exit ends the
\* threads and discards the aggregate state.)
C7_EmissionsAtomic ==
  main_pc # "exited" =>
    /\ Cardinality(InRecordEvent) <= 1
    /\ \A t \in InRecordEvent : lock = t
    /\ CountLines(log) = Len(written)
    /\ log = RenderAll(written)
    /\ LET mid == {t \in Workers : th[t] = "cs_update"} IN
         /\ Len(written) = query_count + Cardinality(mid)
         /\ SumLen(domain_times, ProxyDomains) = query_count
         /\ \A t \in mid :
              /\ written[Len(written)].domain = exch[t].domain
              /\ written[Len(written)].ips = extract_answer_ips(exch[t].response)

\* one thread is between its write and its updates while the other waits for
\* the lock
C7_Witness ==
  /\ th["udp"] = "cs_update"
  /\ th["c1"] = "record"
  /\ lock = "udp"

\* ---------------------------------------------------------------- C8
\* C8: once flush_outputs has run (and from then on, with the Event Log closed)
\* both listener loops and every handler have returned, so no exchange is in
\* flight and record_event cannot run any more.
C8_FlushAfterExchanges ==
  main_pc \in {"flushed", "closed", "exited"} =>
    \A t \in Threads : th[t] \in {"unstarted", "returned", "bind_failed"}

\* ---------------------------------------------------------------- C9
\* C9: in an iteration whose rule load failed, once the intermediate snapshot is
\* written blocked_ips is what it was before the attempt, and the snapshot's
\* pf_status is the failure text carrying the reason pfctl gave in that attempt.
C9_FailureLeavesEnforced ==
  (pc = "sleep" /\ cycle.result = "fail") =>
    /\ BlockedIps = cycle.before
    /\ snapshot.written
    /\ snapshot.blocked_ips = cycle.before
    /\ snapshot.pf_status = Msg("Failed to apply PF rules: ", cycle.reason)

\* a load failed while an earlier load is in force, and the snapshot is written
C9_Witness ==
  /\ pc = "sleep"
  /\ cycle.result = "fail"
  /\ cycle.before # {}

\* ---------------------------------------------------------------- C10
\* C10: past the convergence block of an iteration, with PF ready, youtube_ips
\* differs from blocked_ips only if a load was attempted in this very iteration
\* and failed; so every iteration that finds them different attempts a load, a
\* failed load is attempted again in the next one, and after a load that
\* succeeded the two are equal.
C10_RetryUntilConverged ==
  (pc \in {"snapshot", "sleep"} /\ pf_ready) =>
    \/ state.youtube_ips = BlockedIps
    \/ cycle.result = "fail"

\* the load failed in one iteration and succeeded in the next
C10_Witness ==
  /\ pc = "sleep"
  /\ prev_cycle.result = "fail"
  /\ cycle.result = "ok"
  /\ state.youtube_ips = BlockedIps

\* ---------------------------------------------------------------- C11
\* the files main() writes: the intermediate snapshot and the final summary
StatusFiles == {snapshot, final_payload}

\* C11: once the enable attempt at startup has failed, pf_ready stays false to
\* the end of the run; pfctl -E was invoked once and never again, no rule load
\* is attempted, blocked_ips and the anchor stay empty, every snapshot written
\* (intermediate or final) reports pf_ready false with the "PF unavailable"
\* text and the reason of the failed attempt; and every iteration of the loop
\* still starts with consume_new_events, whose counts the snapshot carries.
C11_UnavailableIsSticky ==
  /\ [](( pc # "start" /\ ~pf_ready) =>
         /\ pf_calls.enable = 1
         /\ pf_calls.load = 0
         /\ BlockedIps = {}
         /\ anchor = ClearedAnchor
         /\ ~pf_enabled
         /\ last_pf_message.prefix = "PF unavailable: "
         /\ last_pf_message.text \in Reasons
         /\ \A f \in StatusFiles :
              f.written => /\ ~f.pf_ready
                           /\ f.pf_status = last_pf_message
                           /\ f.blocked_ips = {}
         /\ pc = "sleep" => snapshot.total_dns_events = state.total_dns_events)
  /\ [][/\ pc # "start" => pf_ready' = pf_ready
        /\ (pc = "loop" /\ pc' # pc /\ ~stop_event) => pc' = "consume"]_vars

\* PF is unavailable and the tailer has consumed an event after a snapshot
\* that reported none
C11_Witness ==
  /\ pc = "check"
  /\ ~pf_ready
  /\ snapshot.written
  /\ snapshot.total_dns_events = 0
  /\ state.total_dns_events > 0
  /\ state.youtube_ips # {}

\* ---------------------------------------------------------------- C12
\* C12: once a convergence has succeeded, the convergence block of an iteration
\* that finds youtube_ips equal to what that convergence loaded invokes neither
\* apply_anchor_rules nor the counter fold: the count of load invocations, the
\* anchor's rules and table, blocked_ips, cumulative_blocked_packets and the
\* status text are all unchanged.  What the snapshot of such an iteration adds
\* is the counter reading.
C12_NoReloadWhenUnchanged ==
  [][(pc = "check" /\ pf_calls.loaded > 0 /\ state.youtube_ips = anchor.table) =>
       /\ pf_calls'.load = pf_calls.load
       /\ anchor'.rules = anchor.rules
       /\ anchor'.table = anchor.table
       /\ BlockedIps' = BlockedIps
       /\ state'.cumulative_blocked_packets = state.cumulative_blocked_packets
       /\ last_pf_message' = last_pf_message]_vars

\* an iteration after a successful load made no load, and its snapshot reports
\* packets counted since
C12_Witness ==
  /\ pc = "sleep"
  /\ cycle.result = "none"
  /\ pf_calls.load = 1
  /\ pf_calls.loaded = 1
  /\ state.youtube_ips = anchor.table
  /\ snapshot.blocked_packets_so_far > 0

\* ---------------------------------------------------------------- C13
\* C13: the blocked-packet total of a snapshot (intermediate or final) is never
\* smaller than the total of the snapshot it replaces.
C13_TotalNeverDecreases ==
  [][/\ (snapshot.written /\ snapshot'.written) =>
          snapshot'.blocked_packets_so_far >= snapshot.blocked_packets_so_far
     /\ (snapshot.written /\ final_payload'.written) =>
          final_payload'.blocked_packets_so_far >= snapshot.blocked_packets_so_far]_vars

\* ---------------------------------------------------------------- C14
\* C14: blocked_ips, in the program's state and in every file written from it
\* (the final summary included), is non-empty only if a rule load has succeeded.
C14_BlockedOnlyAfterLoad ==
  /\ BlockedIps # {} => pf_calls.loaded > 0
  /\ \A f \in StatusFiles :
       (f.written /\ f.blocked_ips # {}) => pf_calls.loaded > 0

\* main() returned after a stop signal, a load failed during the run and the
\* final summary lists blocked addresses
C14_Witness ==
  /\ pc = "done"
  /\ stop_event
  /\ pf_calls.failed > 0
  /\ final_payload.written
  /\ final_payload.blocked_ips # {}

\* ---------------------------------------------------------------- C15
\* C15: at the end of an iteration in which the tailer has read the Event Log
\* to its end, with nothing of a write outstanding, PF ready and no pfctl
\* invocation failed, every address of every target-domain line the middleman
\* appended is in youtube_ips, the anchor's table holds exactly youtube_ips,
\* and blocked_ips equals youtube_ips.
C15_EndToEnd ==
  (/\ pc = "sleep"
   /\ pf_ready
   /\ pf_calls.failed = 0
   /\ wpending = << >>
   /\ state.consumed_bytes = Len(log)) =>
    /\ \A j \in 1..Len(written) :
         is_target_domain(written[j].domain, build_target_domains(target_domain))
           => SeqToSet(written[j].ips) \subseteq state.youtube_ips
    /\ anchor.rules = (state.youtube_ips # {})
    /\ anchor.table = state.youtube_ips
    /\ BlockedIps = state.youtube_ips

\* ---------------------------------------------------------------- C16
\* the middleman has stopped: start() has flushed and returned, the process has
\* ended and no thread runs any more
ProxyStopped ==
  /\ main_pc = "exited"
  /\ split_file.written
  /\ ordered_fp = "closed"
  /\ \A t \in Threads : th[t] \in {"unstarted", "returned", "bind_failed", "died", "killed"}

\* C16: a listener whose bind failed has raised the stop signal; the signal,
\* once raised, stays raised; a listener that tests it leaves its loop; start()
\* flushes only after it; and from a bind failure on, start() does flush, close
\* the log and return, after which no listener runs.
C16_BindFailureStopsProxy ==
  /\ []((\E t \in {"udp", "tcp"} : th[t] = "bind_failed") => mm_stop_event)
  /\ [][/\ mm_stop_event => mm_stop_event'
        /\ \A t \in Threads :
             (mm_stop_event /\ th[t] = "top" /\ th'[t] # th[t])
               => th'[t] \in {"returned", "killed"}
        /\ (main_pc = "run" /\ main_pc' # main_pc) => mm_stop_event]_vars
  /\ (\E t \in {"udp", "tcp"} : th[t] = "bind_failed") ~> ProxyStopped

\* the TCP bind failed while the UDP listener was serving; start() has returned
\* and the UDP listener has left its loop
C16_Witness ==
  /\ th["tcp"] = "bind_failed"
  /\ th["udp"] = "returned"
  /\ query_count > 0
  /\ ProxyStopped

\* ---------------------------------------------------------------- C17
\* C17: a UDP exchange for a query with a full header whose forwarding failed
\* carries, from the forwarding step on, a SERVFAIL with the query's ID and
\* question; it reaches record_event only after that response was sent; the
\* line record_event writes for it has an empty IP list; and when such an
\* exchange ran to its end, the send of that SERVFAIL was issued.
C17_ServfailOnForwardFailure ==
  /\ \A t \in Workers :
       (exch[t].active /\ exch[t].proto = "udp" /\ exch[t].fwd = "fail") =>
         /\ exch[t].query.len >= HeaderLen
         /\ exch[t].response.present
         /\ exch[t].response.kind = "servfail"
         /\ exch[t].response.id = exch[t].query.id
         /\ exch[t].response.question = exch[t].query.name
         /\ th[t] \in {"record", "cs_write", "cs_update"} => exch[t].sent
         /\ th[t] = "cs_update" =>
              /\ written[Len(written)].domain = exch[t].domain
              /\ written[Len(written)].ips = << >>
  /\ \A e \in done_exch :
       (e.proto = "udp" /\ e.qlen >= HeaderLen /\ e.fwd = "fail" /\ ~e.aborted) =>
         (e.attempted /\ e.resp = "servfail" /\ e.echo)

\* forwarding failed for a UDP query for youtube.com; the SERVFAIL was sent and
\* the line logged for the exchange has no address
C17_Witness ==
  /\ \E e \in done_exch :
       /\ e.proto = "udp"
       /\ e.qlen >= HeaderLen
       /\ e.fwd = "fail"
       /\ e.resp = "servfail"
       /\ e.echo
       /\ e.sent
       /\ e.recorded = 1
  /\ written = <<[domain |-> <<"y">>, time |-> <<"t1">>, ips |-> << >>]>>

\* ---------------------------------------------------------------- C18
\* the domain is the target or its www. form
IsTargetEvent(ev) == ev.domain \in {<<"y">>, <<"w", "y">>}

\* the positions of the target-domain events among those parsed so far
TargetEvents == {i \in 1..Len(accepted) : IsTargetEvent(accepted[i])}

\* C18: with the lines parsed so far taken in order, total_dns_events is their
\* number and observed_domains the set of their domains; the query-seen flag
\* says that one of them is for the target or its www. form, the answer-seen
\* flag that one of those has a non-empty IP list; youtube_events is the
\* sequence of the target events, youtube_ips exactly the union of their IPs,
\* and unblocked_domains the set of the other domains.  The match ignores case
\* and a trailing dot.
C18_ClassifiedPerLine ==
  /\ state.total_dns_events = Len(accepted)
  /\ state.observed_domains = {accepted[i].domain : i \in 1..Len(accepted)}
  /\ state.youtube_dns_query_seen = (TargetEvents # {})
  /\ state.youtube_dns_returned = (\E i \in TargetEvents : accepted[i].ips # << >>)
  /\ state.youtube_events = SelectSeq(accepted, IsTargetEvent)
  /\ state.youtube_ips = UNION {SeqToSet(accepted[i].ips) : i \in TargetEvents}
  /\ state.unblocked_domains =
       {accepted[i].domain : i \in (1..Len(accepted)) \ TargetEvents}
  /\ \A d \in {<<"Y">>, <<"W", "Y">>, <<"w", "y", ".">>} :
       is_target_domain(d, build_target_domains(target_domain))
  /\ ~is_target_domain(<<"w", "o">>, build_target_domains(target_domain))

\* a line for www.youtube.com with two addresses and a line for another
\* domain have been consumed
C18_Witness ==
  /\ state.total_dns_events = 2
  /\ state.youtube_ips = {"a", "b"}
  /\ state.observed_domains = {<<"w", "y">>, <<"o">>}
  /\ state.unblocked_domains = {<<"o">>}
  /\ state.youtube_dns_returned

\* ---------------------------------------------------------------- C19
\* the line the tailer is about to read
NextLine == readline(log, state.consumed_bytes)

\* C19: when the tailer reads a line that fails the grammar, the cursor moves
\* to the end of that line and nothing else of the BlockerState changes: no
\* counter, set, event list or flag; the loop goes on with the next line.  The
\* cursor never moves back, and the loop ends only at the end of the file, so
\* the line is passed and not read again.
C19_MalformedLineSkipped ==
  [][/\ (/\ pc = "reading"
         /\ log' = log
         /\ <<state, pc, accepted>>' # <<state, pc, accepted>>
         /\ NextLine # << >>
         /\ ~parse_ordered_line(NextLine).ok) =>
          /\ state' = [state EXCEPT !.consumed_bytes = @ + Len(NextLine)]
          /\ accepted' = accepted
          /\ pc' = "reading"
     /\ state'.consumed_bytes >= state.consumed_bytes
     /\ (pc = "reading" /\ pc' = "idle") => state.consumed_bytes = Len(log)]_vars

\* the file holds one line, for a name with "]" in a label; the tailer has
\* passed it and counted nothing
C19_Witness ==
  /\ pc = "idle"
  /\ Len(written) = 1
  /\ written[1].domain = <<"o", "]", "y">>
  /\ written[1].ips = <<"a", "b">>
  /\ state.consumed_bytes = Len(log)
  /\ state = [InitState EXCEPT !.consumed_bytes = Len(log)]

\* ---------------------------------------------------------------- C20
\* the lines of a text, each with its terminator (the last one maybe without)
RECURSIVE LinesOf(_)
LinesOf(bytes) ==
  IF bytes = << >> THEN << >>
  ELSE LET e == LineEnd(bytes, 1) IN
       <<SubSeq(bytes, 1, e)>> \o LinesOf(SubSeq(bytes, e + 1, Len(bytes)))

\* the events of the target-domain lines among lines, in order
RECURSIVE TargetEventsOf(_)
TargetEventsOf(lines) ==
  IF lines = << >> THEN << >>
  ELSE LET p == parse_ordered_line(Head(lines)) IN
       (IF p.ok /\ IsTargetEvent(Event(p)) THEN <<Event(p)>> ELSE << >>)
         \o TargetEventsOf(Tail(lines))

\* C20: at every moment youtube_events is the sequence of the events of the
\* target-domain lines in the part of the Event Log before the cursor, in the
\* order of the file, whatever the interleaving of polls and writes.
C20_EventsInLogOrder ==
  state.youtube_events =
    TargetEventsOf(LinesOf(SubSeq(log, 1, state.consumed_bytes)))

\* C21: the read cursor consumed_bytes never decreases from one moment to the
\* next while the Event Log only grows, and is never beyond the bytes the
\* middleman has written to the Event Log.
C21_CursorMonotoneBounded ==
  /\ [](state.consumed_bytes <= Len(log) /\ Len(log) <= Len(RenderAll(written)))
  /\ [][state'.consumed_bytes >= state.consumed_bytes]_vars

\* the positions of main() inside one iteration of its loop
InIteration == {"consume", "reading", "check", "snapshot"}

\* C22: every iteration of main()'s loop writes the intermediate status file:
\* an iteration ends (the loop sleeps and tests its condition again) only by
\* the step that writes the snapshot, and the file then shows the state of that
\* moment, whether or not events were consumed, a convergence ran or succeeded,
\* or PF is ready.  An iteration cut short by an exception leaves the loop.
C22_SnapshotEveryIteration ==
  [][/\ (pc \in InIteration /\ pc' \notin InIteration) =>
           \/ pc = "snapshot" /\ pc' = "sleep"
           \/ pc' = "finally"
     /\ (pc' = "loop" /\ pc # "loop") => pc \in {"start", "sleep"}
     /\ (pc = "snapshot" /\ pc' = "sleep") =>
           /\ snapshot'.written
           /\ snapshot'.total_dns_events = state.total_dns_events
           /\ snapshot'.youtube_ips = state.youtube_ips
           /\ snapshot'.blocked_ips = BlockedIps
           /\ snapshot'.pf_ready = pf_ready
           /\ snapshot'.pf_status = last_pf_message
           /\ snapshot'.blocked_packets_so_far >= state.cumulative_blocked_packets
           /\ <<state, blocked, pf_ready, last_pf_message>>'
                = <<state, blocked, pf_ready, last_pf_message>>]_vars

\* an iteration has ended in which no event was consumed and no convergence
\* ran, with PF unavailable, and the file is written
C22_Witness ==
  /\ pc = "sleep"
  /\ ~pf_ready
  /\ state.total_dns_events = 0
  /\ cycle.result = "none"
  /\ snapshot.written

\* a thread of the middleman that runs no more
ThreadEnded(t) == th[t] \in {"returned", "bind_failed", "died", "killed"}

\* C23: once a stop flag is set, the loop that tests it is left at its next
\* test: a listener or handler at its loop condition returns and starts no
\* further wait, main() at its loop condition goes to the finally block; and,
\* blocking calls returning or timing out, every started thread of the
\* middleman ends and main() ends.
C23_StopObservedAndExit ==
  /\ [][/\ \A t \in Threads :
            (mm_stop_event /\ th[t] = "top" /\ th'[t] # th[t]) =>
               th'[t] \in {"returned", "killed"}
        /\ (stop_event /\ pc = "loop" /\ pc' # pc) => pc' = "finally"]_vars
  /\ mm_stop_event ~> (\A t \in Threads : th[t] = "unstarted" \/ ThreadEnded(t))
  /\ (stop_event /\ pc # "idle") ~> pc \in {"done", "crashed"}

\* the stop flag of the middleman is set and the three threads have left their
\* loops by themselves, the main thread still being in start()
C23_Witness ==
  /\ mm_stop_event
  /\ main_pc = "run"
  /\ \A t \in Threads : th[t] = "returned"
  /\ query_count > 0

\* C24: round trip: for every record whose domain holds no "]" and no "[", the
\* line record_event renders, parsed by parse_ordered_line, gives back the
\* same (domain, time, ips).
C24_RoundTrip ==
  \A i \in 1..Len(accepted) :
    ("]" \notin SeqToSet(written[i].domain) /\ "[" \notin SeqToSet(written[i].domain))
      => accepted[i] = written[i]

\* ---------------------------------------------------------------- C25
\* the pointers followed so far are pairwise different
NoPointerTwice(followed) ==
  \A i, j \in 1..Len(followed) : followed[i] = followed[j] => i = j

\* C25: decode_dns_name terminates on every buffer and start offset, pointer
\* cycles and self-pointing pointers included: no pointer value is followed
\* twice; every iteration either leaves the loop, or follows a pointer not seen
\* before (there are 2^14 of them), or moves the cursor forward inside the
\* buffer; and every call returns.
C25_DecodeTerminates ==
  /\ [](NoPointerTwice(call.followed) /\ call.seen_pointers \subseteq 0..(2 ^ 14 - 1))
  /\ [][call.at = "loop" =>
          \/ call'.at = "return"
          \/ /\ call.seen_pointers \subseteq call'.seen_pointers
             /\ call'.seen_pointers # call.seen_pointers
          \/ /\ call'.seen_pointers = call.seen_pointers
             /\ call'.cursor > call.cursor
             /\ call'.cursor <= Len(call.data)]_vars
  /\ (call.at = "loop") ~> (call.at = "returned")

\* a call returned after it met a cycle of two pointers
C25_Witness ==
  /\ call.at = "returned"
  /\ call.loop
  /\ Len(call.followed) = 2

\* ---------------------------------------------------------------- C26
\* C26: when the decoder ran into a pointer loop, the name it returns has no
\* more characters than the number of distinct buffer positions it visited.
C26_NameWithinVisited ==
  (call.at = "returned" /\ call.loop) =>
     Len(call.name) <= Cardinality(call.reads)

\* ---------------------------------------------------------------- C27
\* C27: for every buffer and start offset, decode_dns_name reads no index
\* outside the buffer (so no IndexError is raised; nothing else in it can
\* raise), and it returns the name of the labels decoded so far with an offset
\* not smaller than the start offset.
C27_DecodeInBounds ==
  /\ call.reads \subseteq 0..(Len(call.data) - 1)
  /\ call.at = "returned" =>
       /\ call.result >= call.offset
       /\ call.name = LowerText(StripDots(JoinLabels(call.labels)))

\* a call returned a label and stopped at a pointer cut off by the end of the
\* buffer
C27_Witness ==
  /\ call.at = "returned"
  /\ call.labels # << >>
  /\ call.cursor = Len(call.data) - 1
  /\ At(call.data, call.cursor) = 192

\* ---------------------------------------------------------------- C28
\* the name of a question written out: the labels' texts, lower-cased, with a
\* dot between them
RECURSIVE DotJoined(_)
DotJoined(labels) ==
  IF labels = << >> THEN << >>
  ELSE IF Len(labels) = 1 THEN labels[1].text
  ELSE labels[1].text \o <<46>> \o DotJoined(Tail(labels))

\* C28: for every query with a well-formed question section,
\* extract_query_domain returns the lower-cased, dot-joined question name,
\* however the name is stored; it returns None for a message of fewer than 12
\* bytes and for a question count of zero.
C28_QueryDomain ==
  (call.fn = "extract_query_domain" /\ call.at = "returned") =>
     IF Len(call.payload) < HeaderLen \/ call.input.qdcount = 0
     THEN call.result = Absent
     ELSE call.result = Present(DotJoined(call.input.labels))

\* C28, amended: the same for question names of at least one label whose
\* labels are ASCII text without a dot; None is returned for a message of fewer
\* than 12 bytes, for a question count of zero, and for the root name.
C28_QueryDomainOfPlainLabels ==
  (call.fn = "extract_query_domain" /\ call.at = "returned") =>
     IF Len(call.payload) < HeaderLen \/ call.input.qdcount = 0
          \/ call.input.labels = << >>
     THEN call.result = Absent
     ELSE (\A i \in 1..Len(call.input.labels) : call.input.labels[i].plain) =>
            call.result = Present(DotJoined(call.input.labels))

\* the name "Y.o-" with its second label reached through a pointer came back
\* as "y.o-"
C28_Witness ==
  /\ call.fn = "extract_query_domain"
  /\ call.at = "returned"
  /\ call.input.style = "tail"
  /\ Len(call.input.labels) = 2
  /\ call.result = Present(<<121, 46, 111, 45>>)

\* ---------------------------------------------------------------- C29
\* the addresses of the first n records that lie whole within the first `cut`
\* bytes of the message, the first of them starting at `offset`
RECURSIVE AddressesIn(_, _, _, _)
AddressesIn(records, n, offset, cut) ==
  IF n = 0 \/ records = << >> THEN {}
  ELSE LET end == offset + Len(RecordBytes(Head(records)))
       IN IF end > cut THEN {}
          ELSE (IF Head(records).addr = << >> THEN {} ELSE {Head(records).addr})
                 \cup AddressesIn(Tail(records), n - 1, end, cut)

\* the address texts of AnswerKinds in the order of sorted():
\* "0.0.0.10", "0.0.0.2", "::1"
AddressOrder ==
  << <<48, 46, 48, 46, 48, 46, 49, 48>>, <<48, 46, 48, 46, 48, 46, 50>>,
     <<58, 58, 49>> >>

\* C29: extract_answer_ips returns, sorted and without duplicates, the
\* addresses of exactly the class-IN A records of 4 bytes and AAAA records of
\* 16 bytes among the declared answers; records of other types and classes add
\* nothing and do not shift the records behind them; a record that runs past
\* the end of the buffer ends the iteration with what was collected.
C29_AnswerIps ==
  (call.fn = "extract_answer_ips" /\ call.at = "returned") =>
     call.result =
       SelectSeq(AddressOrder,
                 LAMBDA a : a \in AddressesIn(call.input.records, call.input.ancount,
                                              HeaderLen + Len(ResponseQuestion),
                                              Len(call.payload)))

\* a TXT record was passed over and the address of the A record behind it
\* was returned
C29_Witness ==
  /\ call.fn = "extract_answer_ips"
  /\ call.at = "returned"
  /\ call.input.ancount = 2
  /\ Len(call.input.records) = 2
  /\ call.input.records[1].rtype = 16
  /\ Len(call.result) = 1

\* ---------------------------------------------------------------- C30
\* C30: for a query of at least 12 bytes make_servfail returns a message with
\* the query's transaction ID and question section, the response flag set,
\* RCODE 2 (SERVFAIL), the answer, authority and additional counts zero, and
\* nothing behind the header but the question section; for a shorter query it
\* returns None.
C30_ServfailShape ==
  (call.fn = "make_servfail" /\ call.at = "returned") =>
     IF Len(call.payload) < HeaderLen THEN call.result = Absent
     ELSE /\ call.result.present
          /\ LET reply == call.result.value
             IN /\ Slice(reply, 0, 2) = call.input.id
                /\ At(reply, 2) \div 128 = 1
                /\ At(reply, 3) % 16 = 2
                /\ U16(reply, 6) = 0
                /\ U16(reply, 8) = 0
                /\ U16(reply, 10) = 0
                /\ Slice(reply, HeaderLen, Len(reply))
                     = QuestionBytes(call.input.labels, call.input.style)

\* ---------------------------------------------------------------- C31
\* C31: when upstream forwarding returned a response, what is handed to the
\* client's socket is that response, unmodified: alone over UDP, behind the two
\* bytes of its length over TCP.
C31_RelayedVerbatim ==
  \A t \in Workers :
    (exch[t].active /\ exch[t].fwd = "ok" /\ exch[t].attempted) =>
       /\ exch[t].wire.body = exch[t].upstream
       /\ exch[t].wire.prefix =
            IF t = "udp" THEN << >>
            ELSE <<exch[t].upstream.len \div 256, exch[t].upstream.len % 256>>

\* the TCP handler has sent an upstream response of 45 bytes
C31_Witness ==
  /\ th["c1"] = "record"
  /\ exch["c1"].fwd = "ok"
  /\ exch["c1"].sent
  /\ exch["c1"].wire.prefix = <<0, 45>>
  /\ exch["c1"].wire.body.kind = "answer"

\* ---------------------------------------------------------------- C33
\* C33: a call of consume_new_events made while the Event Log does not exist
\* returns without an error and leaves BlockerState as it was, the cursor at
\* 0; the first line read once the file exists is the first line of the file,
\* and its event is the first one accepted.
C33_MissingLogThenFirstLine ==
  /\ [](~log_exists => (state.consumed_bytes = 0 /\ accepted = << >>))
  /\ [][(pc = "consume" /\ ~log_exists /\ pc' # pc) =>
          /\ pc' = "check"
          /\ state' = state
          /\ accepted' = accepted]_vars
  /\ [][(pc = "reading" /\ state.consumed_bytes = 0 /\ state'.consumed_bytes # 0) =>
          /\ state'.consumed_bytes = Len(RenderLine(written[1]))
          /\ accepted' = <<written[1]>>]_vars

\* main() has polled while the log was missing and goes on to its convergence
\* test with nothing consumed
C33_Witness ==
  /\ pc = "check"
  /\ ~log_exists
  /\ state.consumed_bytes = 0
  /\ state.total_dns_events = 0

\* ---------------------------------------------------------------- C35
\* C35: in every state of the blocker blocked_ips is a subset of youtube_ips,
\* and from one state to the next neither set loses an address.
C35_BlockedWithinYoutubeAndGrowing ==
  /\ [](BlockedIps \subseteq state.youtube_ips)
  /\ [][/\ state.youtube_ips \subseteq state'.youtube_ips
        /\ BlockedIps \subseteq BlockedIps']_vars

\* a second address was learnt after the first was blocked, and main() has left
\* its loop: blocked_ips holds one address, youtube_ips two
C35_Witness ==
  /\ pc = "done"
  /\ Cardinality(BlockedIps) = 1
  /\ Cardinality(state.youtube_ips) = 2

\* ---------------------------------------------------------------- C36
\* C36: the blocked-packet total of a snapshot counts no packet twice: it is
\* never more than the counter values reset by the successful loads plus the
\* counter's current value, and it is equal to that sum when no pfctl
\* invocation has failed.  A failed load leaves the counter as it was, and its
\* reading is then not counted a second time.
C36_NoPacketCountedTwice ==
  [][(pc = "snapshot" /\ pc' = "sleep") =>
       /\ snapshot'.blocked_packets_so_far <= pf_calls.lost + anchor.packets
       /\ pf_calls'.failed = 0 =>
            snapshot'.blocked_packets_so_far = pf_calls.lost + anchor.packets]_vars

\* ---------------------------------------------------------------- C38
\* the addresses of the lines written for domain d
LoggedIps(d) ==
  UNION {SeqToSet(written[i].ips) : i \in {j \in 1..Len(written) : written[j].domain = d}}

\* C38: whenever the lock is free, query_count is the number of lines in the
\* Event Log and the number of timestamps held in domain_times, and
\* domain_ips[d] is the union of the addresses of the lines written for d.
C38_AggregatesAgreeOutsideLock ==
  LockFree =>
    /\ query_count = Len(written)
    /\ query_count = CountLines(log)
    /\ query_count = SumLen(domain_times, ProxyDomains)
    /\ \A d \in ProxyDomains : domain_ips[d] = LoggedIps(d)

\* two events were recorded, one of them with an address, and no thread holds
\* the lock while the proxy is still serving
C38_Witness ==
  /\ LockFree
  /\ main_pc = "run"
  /\ query_count = 2
  /\ \E d \in ProxyDomains : domain_ips[d] = {"a"}

\* ---------------------------------------------------------------- C37
\* the timestamps of the lines written for domain d, in the order of the log
RECURSIVE LoggedTimes(_, _)
LoggedTimes(recs, d) ==
  IF recs = << >> THEN << >>
  ELSE (IF Head(recs).domain = d THEN <<Head(recs).time>> ELSE << >>)
         \o LoggedTimes(Tail(recs), d)

\* C37: when the proxy has exited, the flushed per-domain map holds for every
\* domain exactly the timestamps of that domain's lines in the Event Log, in
\* the order of the log.
C37_SplitFileAgreesWithLog ==
  main_pc = "exited" =>
    /\ split_file.written
    /\ \A d \in ProxyDomains :
         split_file.payload[d] = LoggedTimes(written, d)

\* ---------------------------------------------------------------- C34
\* the lines written so far that match the line grammar
WellFormedWritten ==
  {j \in 1..Len(written) : parse_ordered_line(RenderLine(written[j])).ok}

\* C34: no line is counted twice, and none is lost: total_dns_events is never
\* more than the number of well-formed lines written, and once every write is
\* whole in the file and a poll has read the file to its end it is that
\* number, however the polls fell between and inside the writes.
C34_EveryLineConsumedOnce ==
  /\ state.total_dns_events <= Cardinality(WellFormedWritten)
  /\ (pc = "idle" /\ wpending = << >> /\ state.consumed_bytes = Len(log)) =>
       state.total_dns_events = Cardinality(WellFormedWritten)

\* ---------------------------------------------------------------- C39
\* the offset in the client's bytes at which its i-th message begins
FrameStart(i) == Len(Stream(SubSeq(conn.msgs, 1, i - 1)))

\* C39: every query the handler forwards is one message of the client: the
\* bytes of its body, read from the offset at which that message's length
\* prefix begins, however the bytes were split over the receives and wherever
\* a receive timed out.
C39_ForwardsClientMessages ==
  \A n \in 1..Len(conn.forwarded) :
    \E i \in 1..Len(conn.msgs) :
      /\ conn.forwarded[n].start = FrameStart(i)
      /\ conn.forwarded[n].query = conn.msgs[i]

\* ---------------------------------------------------------------- C32
\* `with conn` has been left: the proxy closed the connection
ConnClosed == th["c1"] \in {"returned", "died", "killed"}

\* C32: after a receive on an idle connection timed out, and after a receive
\* returned nothing because the client disconnected, the proxy has closed
\* the connection.
C32_ClosedOnTimeoutOrDisconnect ==
  /\ (conn.last.result = "timeout" /\ conn.last.stage = "prefix" /\ conn.last.got = 0)
       => ConnClosed
  /\ conn.last.result = "empty" => ConnClosed

\* C32, amended: the proxy has closed the connection after a receive returned
\* nothing because the client disconnected, and after a receive failed with a
\* socket error other than a timeout.  A receive that times out while the
\* handler reads a length prefix takes the handler back to its loop condition
\* with the connection open; from there it waits for a length prefix again, or
\* returns when the stop flag is set.
C32_ClosedOnDisconnectNotOnTimeout ==
  /\ [](conn.last.result \in {"empty", "oserror"} => ConnClosed)
  /\ [][(conn'.last # conn.last /\ conn'.last.result = "timeout"
           /\ conn'.last.stage = "prefix") =>
          (th'["c1"] = "top" /\ ~ConnClosed')]_vars
  /\ [][(th["c1"] = "top" /\ th'["c1"] # "top") =>
          th'["c1"] = IF mm_stop_event THEN "returned" ELSE "wait"]_vars

\* a receive on the idle connection timed out, the stop flag is not set, and
\* the handler is waiting for a length prefix again
C32_Witness ==
  /\ conn.last.result = "timeout"
  /\ conn.last.stage = "prefix"
  /\ conn.last.got = 0
  /\ th["c1"] = "wait"
  /\ ~mm_stop_event
  /\ conn.open

====
